---------------------------- MODULE Spec2Model ----------------------------
(***************************************************************************)
(* Zipmetro: the store facade (getAsync / allAsync / runAsync) in its      *)
(* document-store implementation (sqlToMongoQuery and the db object of     *)
(* database/db.js, MongoDB branch) next to the relational implementation   *)
(* that hands the literal statement to SQLite.                             *)
(*                                                                         *)
(* A statement is the sequence of its tokens: the text of the statement is *)
(* the tokens joined by white space, with no white space after "(" and     *)
(* before ")" and ",".  Keywords are written in upper case, as every call  *)
(* site of the repository writes them.  The regular expressions of the     *)
(* source are modelled by what they match on such a text.                  *)
(*                                                                         *)
(* A JavaScript value is a record [t |-> type tag, v |-> payload].  Text   *)
(* is a sequence of one-character strings.                                 *)
(***************************************************************************)
EXTENDS Integers, Sequences, FiniteSets, TLC

VARIABLES
    docs,      \* the documents of the collection, in natural (insertion) order
    rows,      \* the rows of the relational table holding the seed data
    clock,     \* the wall clock read by new Date()
    nextOid,   \* the next ObjectId the driver generates
    call,      \* the last facade call: [op, sql, params]
    pre,       \* the documents of the collection when the last call was issued
    ret,       \* what the last call returned (or that it rejected)
    calls,     \* the number of facade calls issued so far
    mongoClient,        \* 0 for null, else the number of the MongoClient created last
    mongoDb,            \* 0 for null, else the number of the client the handle came from
    connected,          \* what mongoClient.topology.isConnected() answers
    isConnecting,
    connectionPromise,  \* "null", or the state of the promise: "pending", "fulfilled"
    adminEnsured,
    adminRuns,          \* the number of runs of ensureAdmin started so far
    reachable,          \* the store answers connection attempts and calls
    pc,                 \* where each caller stands in initMongo or in an operation
    retries,            \* the retries counter of the connection attempt each caller runs
    waited,             \* the waitTime of each backoff of that attempt, in order
    last,               \* how the last call of each caller ended
    starts,             \* the number of calls started so far
    alive,              \* the process is running
    useMongo,           \* USE_MONGODB: the db object is the document adapter
    orders,             \* the orders collection (or table), in insertion order
    orderItems,         \* the order_items collection (or table), in insertion order
    post,               \* the last POST /orders: its number, request and response
    request,            \* the request served last by a route behind authenticateToken
    response            \* and the status and body it was answered with

dataVars == <<docs, rows, clock, nextOid, call, pre, ret, calls>>

connVars == <<mongoClient, mongoDb, connected, isConnecting, connectionPromise, adminEnsured,
              adminRuns, reachable, pc, retries, waited, last, starts, alive>>

orderVars == <<useMongo, orders, orderItems, post>>

routeVars == <<request, response>>

vars == <<dataVars, connVars, orderVars, routeVars>>

----------------------------------------------------------------------------
(* JavaScript values *)

Undefined == [t |-> "undefined", v |-> 0]
Null == [t |-> "null", v |-> 0]
Num(n) == [t |-> "number", v |-> n]
Str(s) == [t |-> "string", v |-> s]
Bool(b) == [t |-> "boolean", v |-> b]
\* an ObjectId object
Oid(n) == [t |-> "objectid", v |-> n]
\* a Date object
Date(n) == [t |-> "date", v |-> n]

\* typeof value === 'string'
IsString(x) == x.t = "string"

\* the truthiness JavaScript gives a value in if (x), !x, x || y
Truthy(x) ==
    CASE x.t = "undefined" -> FALSE
      [] x.t = "null" -> FALSE
      [] x.t = "number" -> x.v # 0
      [] x.t = "string" -> Len(x.v) > 0
      [] x.t = "boolean" -> x.v
      [] OTHER -> TRUE

\* a === b
StrictEq(a, b) == a.t = b.t /\ a.v = b.v

\* params[k], k counted from 0: undefined beyond the end of the list
Param(params, k) == IF k + 1 <= Len(params) THEN params[k + 1] ELSE Undefined

----------------------------------------------------------------------------
(* Documents *)

Fields ==
    {"_id", "id", "name", "desc", "category", "active", "created_at", "updated_at",
     "price", "total", "status", "order_id", "product_id", "quantity", "user_id", "role"}

\* a document holds a value under each field it has, undefined under the others
EmptyDoc == [f \in Fields |-> Undefined]

----------------------------------------------------------------------------
(* Token sequences *)

\* tokens that are not made of word characters (\w)
Punct == {"=", "?", "(", ")", ",", "*", ".", ">=", "COUNT(*)", "'x'"}

IsWord(tok) == tok \notin Punct

\* the first index >= from at which tok stands in s, 0 when there is none
RECURSIVE IndexFrom(_, _, _)
IndexFrom(s, tok, from) ==
    IF from > Len(s) THEN 0
    ELSE IF s[from] = tok THEN from
    ELSE IndexFrom(s, tok, from + 1)

Includes(s, tok) == IndexFrom(s, tok, 1) # 0

\* s.split(sep): the pieces of s between the occurrences of the token sep
RECURSIVE SplitOn(_, _)
SplitOn(s, sep) ==
    LET i == IndexFrom(s, sep, 1)
    IN  IF i = 0 THEN <<s>>
        ELSE <<SubSeq(s, 1, i - 1)>> \o SplitOn(SubSeq(s, i + 1, Len(s)), sep)

\* the number of occurrences of tok in s
RECURSIVE Count(_, _)
Count(s, tok) ==
    IF s = <<>> THEN 0
    ELSE (IF Head(s) = tok THEN 1 ELSE 0) + Count(Tail(s), tok)


----------------------------------------------------------------------------
(* Patterns *)

\* upper and lower case of a letter compare equal under LIKE and under $options: 'i'
Fold(c) == IF c = "A" THEN "a" ELSE IF c = "B" THEN "b" ELSE c

\* pattern.replace(/%/g, '.*').replace(/_/g, '.'): the regular expression, one
\* element per atom
LikeToRegex(p) ==
    [i \in 1..Len(p) |-> IF p[i] = "%" THEN ".*" ELSE IF p[i] = "_" THEN "." ELSE p[i]]

\* the regular expression re matches the whole of the text s, ignoring case
RECURSIVE RegexFull(_, _)
RegexFull(re, s) ==
    IF re = <<>> THEN s = <<>>
    ELSE IF Head(re) = ".*"
         THEN RegexFull(Tail(re), s) \/ (s # <<>> /\ RegexFull(re, Tail(s)))
    ELSE IF Head(re) = "."
         THEN s # <<>> /\ RegexFull(Tail(re), Tail(s))
    ELSE s # <<>> /\ Fold(Head(s)) = Fold(Head(re)) /\ RegexFull(Tail(re), Tail(s))

\* { $regex: re, $options: 'i' }: the regular expression matches somewhere in s
RegexTest(re, s) == RegexFull(<<".*">> \o re \o <<".*">>, s)

\* a 24-character hex string is written "#" followed by one digit; the text of
\* every other string of the model is shorter than 12 characters
Digits == <<"0", "1", "2", "3", "4", "5", "6", "7", "8", "9">>

ObjectIdIsValid(x) ==
    x.t = "string" /\ Len(x.v) = 2 /\ x.v[1] = "#" /\ \E d \in 1..10 : Digits[d] = x.v[2]

\* new ObjectId(hexString)
NewObjectId(x) == Oid((CHOOSE d \in 1..10 : Digits[d] = x.v[2]) - 1)

----------------------------------------------------------------------------
(* The query translator: sqlToMongoQuery *)

\* the constraint a query puts on a key
NoCond == [t |-> "none", v |-> 0]
CondEq(x) == [t |-> "eq", v |-> x]
CondRegex(re) == [t |-> "regex", v |-> re]
CondOr(f1, re1, f2, re2) == [t |-> "or", v |-> <<f1, re1, f2, re2>>]

QueryKeys == Fields \cup {"$or"}

\* const query = {}
EmptyQuery == [k \in QueryKeys |-> NoCond]

\* query[field] = c; a field the collection never holds is kept out of the model
SetKey(query, field, c) ==
    IF field \in QueryKeys THEN [query EXCEPT ![field] = c] ELSE query

\* the first i with s[i] a word, s[i+1] = a and s[i+2] = b; 0 when there is none
RECURSIVE MatchWord2(_, _, _, _)
MatchWord2(s, a, b, i) ==
    IF i + 2 > Len(s) THEN 0
    ELSE IF IsWord(s[i]) /\ s[i + 1] = a /\ s[i + 2] = b THEN i
    ELSE MatchWord2(s, a, b, i + 1)

\* condition.match(/(\w+)\s*=\s*\?/)
eqMatch(condition) == MatchWord2(condition, "=", "?", 1)

\* condition.match(/(\w+)\s+LIKE\s+\?/)
likeMatch(condition) == MatchWord2(condition, "LIKE", "?", 1)

\* condition.match(/\((\w+)\s+LIKE\s+\?\s+OR\s+(\w+)\s+LIKE\s+\?\)/)
RECURSIVE OrLikeFrom(_, _)
OrLikeFrom(s, i) ==
    IF i + 8 > Len(s) THEN 0
    ELSE IF /\ s[i] = "(" /\ IsWord(s[i + 1]) /\ s[i + 2] = "LIKE" /\ s[i + 3] = "?"
            /\ s[i + 4] = "OR" /\ IsWord(s[i + 5]) /\ s[i + 6] = "LIKE"
            /\ s[i + 7] = "?" /\ s[i + 8] = ")"
         THEN i
    ELSE OrLikeFrom(s, i + 1)

orLikeMatch(condition) == OrLikeFrom(condition, 1)

\* sql.match(/WHERE\s+(.+?)(?:\s+ORDER|\s+LIMIT|$)/i)[1]: the tokens after the
\* first WHERE up to the first ORDER or LIMIT behind them; <<>> when no match
RECURSIVE ClauseEnd(_, _)
ClauseEnd(sql, j) ==
    IF j > Len(sql) THEN Len(sql)
    ELSE IF sql[j] \in {"ORDER", "LIMIT"} THEN j - 1
    ELSE ClauseEnd(sql, j + 1)

whereMatch(sql) ==
    LET w == IndexFrom(sql, "WHERE", 1)
    IN  IF w = 0 \/ w = Len(sql) THEN <<>>
        ELSE SubSeq(sql, w + 1, ClauseEnd(sql, w + 2))

\* the clause without 1 = 1 AND and without the condition that follows it
StripThroughNextCondition(s) ==
    IF Len(s) >= 4 /\ SubSeq(s, 1, 4) = <<"1", "=", "1", "AND">>
    THEN LET rest == SubSeq(s, 5, Len(s))
             a == IndexFrom(rest, "AND", 1)
         IN  IF a = 0 THEN <<>> ELSE SubSeq(rest, a + 1, Len(rest))
    ELSE s

\* whereClause.replace(/1\s*=\s*1\s*AND\s*/gi, '')
RECURSIVE StripOneEqOne(_)
StripOneEqOne(s) ==
    IF s = <<>> THEN <<>>
    ELSE IF Len(s) >= 4 /\ SubSeq(s, 1, 4) = <<"1", "=", "1", "AND">>
         THEN StripOneEqOne(SubSeq(s, 5, Len(s)))
    ELSE <<Head(s)>> \o StripOneEqOne(Tail(s))

\* the value the id branch puts under _id
IdValue(value) ==
    IF IsString(value) /\ ObjectIdIsValid(value) THEN NewObjectId(value)
    ELSE value

\* the value is truthy
ActiveValueLoose(value) == Bool(Truthy(value))

\* value === 1 || value === true || value === '1'
ActiveValue(value) ==
    Bool(\/ StrictEq(value, Num(1))
         \/ StrictEq(value, Bool(TRUE))
         \/ StrictEq(value, Str(<<"1">>)))

\* a condition of no known shape is an error
UnrecognisedThrows(st) == [st EXCEPT !.threw = TRUE]

\* the end of the callback, reached by a condition no branch has matched
Unrecognised(st) == st

\* the body of conditions.forEach for one condition: st is [query, paramIndex, threw]
Condition(st, condition, params) ==
    LET e == eqMatch(condition)
        l == likeMatch(condition)
        o == orLikeMatch(condition)
        p1 == Param(params, st.paramIndex)
        p2 == Param(params, st.paramIndex + 1)
    IN  IF st.threw THEN st
        ELSE IF e # 0 THEN
            LET field == condition[e]
            IN  [st EXCEPT
                    !.paramIndex = @ + 1,
                    !.query =
                        IF field = "id" THEN SetKey(@, "_id", CondEq(IdValue(p1)))
                        ELSE IF field = "active"
                             THEN SetKey(@, "active", CondEq(ActiveValue(p1)))
                        ELSE SetKey(@, field, CondEq(p1))]
        ELSE IF l # 0 THEN
            LET field == condition[l]
            IN  IF ~Truthy(p1) THEN [st EXCEPT !.paramIndex = @ + 1]
                \* pattern.replace is not a function
                ELSE IF p1.t # "string" THEN [st EXCEPT !.paramIndex = @ + 1, !.threw = TRUE]
                ELSE [st EXCEPT
                         !.paramIndex = @ + 1,
                         !.query = SetKey(@, field, CondRegex(LikeToRegex(p1.v)))]
        ELSE IF o # 0 THEN
            IF (Truthy(p1) /\ p1.t # "string") \/ (Truthy(p2) /\ p2.t # "string")
            THEN [st EXCEPT !.paramIndex = @ + 2, !.threw = TRUE]
            ELSE [st EXCEPT
                     !.paramIndex = @ + 2,
                     !.query = SetKey(@, "$or",
                                 CondOr(condition[o + 1],
                                        IF Truthy(p1) THEN LikeToRegex(p1.v) ELSE <<>>,
                                        condition[o + 5],
                                        IF Truthy(p2) THEN LikeToRegex(p2.v) ELSE <<>>))]
        ELSE Unrecognised(st)

\* conditions.forEach(...)
RECURSIVE ForEachCondition(_, _, _)
ForEachCondition(st, conditions, params) ==
    IF conditions = <<>> THEN st
    ELSE ForEachCondition(Condition(st, Head(conditions), params), Tail(conditions), params)

\* sqlToMongoQuery(sql, params): [query, paramIndex, threw]
sqlToMongoQuery(sql, params) ==
    LET st0 == [query |-> EmptyQuery, paramIndex |-> 0, threw |-> FALSE]
        whereClause == whereMatch(sql)
    IN  IF Includes(sql, "WHERE") /\ whereClause # <<>>
        THEN ForEachCondition(st0, SplitOn(StripOneEqOne(whereClause), "AND"), params)
        ELSE st0

\* getCollectionName(sql): the word after the first FROM, INTO or UPDATE that a
\* word follows; "" for null
RECURSIVE CollectionFrom(_, _)
CollectionFrom(sql, i) ==
    IF i + 1 > Len(sql) THEN ""
    ELSE IF sql[i] \in {"FROM", "INTO", "UPDATE"} /\ IsWord(sql[i + 1]) THEN sql[i + 1]
    ELSE CollectionFrom(sql, i + 1)

getCollectionName(sql) == CollectionFrom(sql, 1)

----------------------------------------------------------------------------
(* The document store: what the driver's calls do to a collection *)

\* the order of one-character strings in text comparison
Chars == <<"#", "%", "0", "1", "2", "A", "B", "_", "a", "b">>

CharRank(c) == IF \E i \in 1..Len(Chars) : Chars[i] = c
               THEN CHOOSE i \in 1..Len(Chars) : Chars[i] = c
               ELSE 0

RECURSIVE TextLess(_, _)
TextLess(a, b) ==
    IF b = <<>> THEN FALSE
    ELSE IF a = <<>> THEN TRUE
    ELSE IF CharRank(Head(a)) # CharRank(Head(b)) THEN CharRank(Head(a)) < CharRank(Head(b))
    ELSE TextLess(Tail(a), Tail(b))

\* the order BSON gives the types: null and missing, numbers, strings, ObjectId,
\* booleans, dates
TypeRank(x) ==
    CASE x.t \in {"undefined", "null"} -> 1
      [] x.t = "number" -> 2
      [] x.t = "string" -> 3
      [] x.t = "objectid" -> 4
      [] x.t = "boolean" -> 5
      [] OTHER -> 6

\* a sorts before b
ValueLess(a, b) ==
    IF TypeRank(a) # TypeRank(b) THEN TypeRank(a) < TypeRank(b)
    ELSE CASE a.t \in {"undefined", "null"} -> FALSE
           [] a.t = "string" -> TextLess(a.v, b.v)
           [] a.t = "boolean" -> ~a.v /\ b.v
           [] OTHER -> a.v < b.v

\* a value as the driver writes it: undefined is written as null
Stored(x) == IF x.t = "undefined" THEN Null ELSE x

\* the equality match { key: x }: null matches null and a missing field
ValueMatches(have, x) ==
    IF x.t \in {"undefined", "null"} THEN have.t \in {"undefined", "null"}
    ELSE StrictEq(have, x)

\* { key: { $regex: re, $options: 'i' } }
RegexMatches(have, re) == have.t = "string" /\ RegexTest(re, have.v)

\* the document satisfies the query
Matches(doc, query) ==
    /\ \A k \in Fields :
          CASE query[k].t = "eq" -> ValueMatches(doc[k], query[k].v)
            [] query[k].t = "regex" -> RegexMatches(doc[k], query[k].v)
            [] OTHER -> TRUE
    /\ query["$or"].t = "or" =>
          LET o == query["$or"].v
          IN  \/ (o[1] \in Fields /\ RegexMatches(doc[o[1]], o[2]))
              \/ (o[3] \in Fields /\ RegexMatches(doc[o[3]], o[4]))

\* the index of the first document at or after i that satisfies the query, 0 if none
RECURSIVE FirstMatch(_, _, _)
FirstMatch(coll, query, i) ==
    IF i > Len(coll) THEN 0
    ELSE IF Matches(coll[i], query) THEN i
    ELSE FirstMatch(coll, query, i + 1)

\* collection.find(query).toArray()
find(coll, query) == SelectSeq(coll, LAMBDA d : Matches(d, query))

\* collection.countDocuments(query)
countDocuments(coll, query) == Len(find(coll, query))

\* one document put into a sorted sequence, behind the documents it does not precede
RECURSIVE InsertSorted(_, _, _, _)
InsertSorted(sorted, d, field, direction) ==
    IF sorted = <<>> THEN <<d>>
    ELSE IF (IF direction = 1 THEN ValueLess(d[field], Head(sorted)[field])
                              ELSE ValueLess(Head(sorted)[field], d[field]))
         THEN <<d>> \o sorted
    ELSE <<Head(sorted)>> \o InsertSorted(Tail(sorted), d, field, direction)

\* cursor.sort({ [field]: direction })
RECURSIVE sort(_, _, _)
sort(found, field, direction) ==
    IF found = <<>> THEN <<>>
    ELSE InsertSorted(sort(SubSeq(found, 1, Len(found) - 1), field, direction),
                      found[Len(found)], field, direction)

\* the sequence without its i-th element
RemoveAt(coll, i) == SubSeq(coll, 1, i - 1) \o SubSeq(coll, i + 1, Len(coll))

\* collection.deleteMany(query): [coll, deletedCount]
deleteMany(coll, query) ==
    [coll |-> SelectSeq(coll, LAMBDA d : ~Matches(d, query)),
     deletedCount |-> countDocuments(coll, query)]

\* collection.deleteOne(query): [coll, deletedCount]
deleteOne(coll, query) ==
    LET i == FirstMatch(coll, query, 1)
    IN  IF i = 0 THEN [coll |-> coll, deletedCount |-> 0]
        ELSE [coll |-> RemoveAt(coll, i), deletedCount |-> 1]

\* the document with the fields of updates set ($set); undefined fields of updates
\* are the fields updates does not name
SetFields(doc, updates, named) ==
    [f \in Fields |-> IF f \in named THEN Stored(updates[f]) ELSE doc[f]]

\* collection.updateOne(query, { $set: updates }): [coll, modifiedCount, threw];
\* _id is immutable
updateOne(coll, query, updates, named) ==
    LET i == FirstMatch(coll, query, 1)
    IN  IF i = 0 THEN [coll |-> coll, modifiedCount |-> 0, threw |-> FALSE]
        ELSE IF "_id" \in named /\ ~StrictEq(Stored(updates["_id"]), coll[i]["_id"])
             THEN [coll |-> coll, modifiedCount |-> 0, threw |-> TRUE]
        ELSE LET d == SetFields(coll[i], updates, named)
             IN  [coll |-> [coll EXCEPT ![i] = d],
                  modifiedCount |-> IF d = coll[i] THEN 0 ELSE 1,
                  threw |-> FALSE]

\* a document of the collection has this _id
HasId(coll, id) == \E i \in 1..Len(coll) : StrictEq(coll[i]["_id"], id)

\* collection.insertOne(doc): [coll, insertedId, threw]; the driver generates the
\* _id of a document that has none, and a duplicate _id is refused
insertOne(coll, doc, oid) ==
    LET d == IF doc["_id"].t \in {"undefined", "null"}
             THEN [doc EXCEPT !["_id"] = Oid(oid)] ELSE doc
    IN  IF HasId(coll, d["_id"])
        THEN [coll |-> coll, insertedId |-> Undefined, threw |-> TRUE]
        ELSE [coll |-> Append(coll, d), insertedId |-> d["_id"], threw |-> FALSE]

\* collection.replaceOne({ _id: id }, doc, { upsert: true }):
\* [coll, modifiedCount, upsertedId]; the document found keeps its _id, a document
\* inserted takes the _id of the filter
replaceOne(coll, id, doc) ==
    LET q == [EmptyQuery EXCEPT !["_id"] = CondEq(id)]
        i == FirstMatch(coll, q, 1)
    IN  IF i # 0
        THEN LET d == [doc EXCEPT !["_id"] = coll[i]["_id"]]
             IN  [coll |-> [coll EXCEPT ![i] = d],
                  modifiedCount |-> IF d = coll[i] THEN 0 ELSE 1,
                  upsertedId |-> Null]
        ELSE LET d == [doc EXCEPT !["_id"] = Stored(id)]
             IN  [coll |-> Append(coll, d), modifiedCount |-> 0, upsertedId |-> Stored(id)]

----------------------------------------------------------------------------
(* The document adapter: db.getAsync, db.allAsync, db.runAsync *)

\* the collection the model holds; the statements of the model name no other
Collection == "products"

Rejected(message) == [t |-> "rejected", v |-> message]

\* if (doc._id) { doc.id = doc._id; delete doc._id; }
ConvertId(doc) ==
    IF Truthy(doc["_id"])
    THEN [doc EXCEPT !["id"] = doc["_id"], !["_id"] = Undefined]
    ELSE doc

\* sql.toUpperCase().includes('SELECT COUNT(*)')
IsCount(sql) ==
    \E i \in 1..Len(sql) - 1 : sql[i] = "SELECT" /\ sql[i + 1] = "COUNT(*)"

\* db.getAsync(sql, params) on the collection coll: what the promise settles to
getAsync(coll, sql, params) ==
    LET collectionName == getCollectionName(sql)
        q == sqlToMongoQuery(sql, params)
    IN  IF collectionName = "" THEN Rejected("Could not determine collection from SQL")
        ELSE IF q.threw THEN Rejected("TypeError")
        ELSE IF IsCount(sql) THEN [t |-> "count", v |-> countDocuments(coll, q.query)]
        ELSE LET i == FirstMatch(coll, q.query, 1)
             IN  IF i = 0 THEN [t |-> "null", v |-> 0]
                 ELSE [t |-> "doc", v |-> ConvertId(coll[i])]

\* sql.match(/ORDER BY\s+(\w+)\s+(ASC|DESC)?/i): the index of ORDER, 0 when no
\* match; white space has to follow the field
RECURSIVE OrderFrom(_, _)
OrderFrom(sql, i) ==
    IF i + 3 > Len(sql) THEN 0
    ELSE IF /\ sql[i] = "ORDER" /\ sql[i + 1] = "BY" /\ IsWord(sql[i + 2])
            /\ sql[i + 3] \notin {")", ","}
         THEN i
    ELSE OrderFrom(sql, i + 1)

orderMatch(sql) == OrderFrom(sql, 1)

\* sql.includes('ORDER BY')
IncludesOrderBy(sql) ==
    \E i \in 1..Len(sql) - 1 : sql[i] = "ORDER" /\ sql[i + 1] = "BY"

\* db.allAsync(sql, params) on the collection coll
allAsync(coll, sql, params) ==
    LET collectionName == getCollectionName(sql)
        q == sqlToMongoQuery(sql, params)
        found == find(coll, q.query)
        o == orderMatch(sql)
        sorted ==
            IF IncludesOrderBy(sql) /\ o # 0 /\ sql[o + 2] \in Fields
            THEN sort(found, sql[o + 2], IF sql[o + 3] = "DESC" THEN -1 ELSE 1)
            ELSE found
    IN  IF collectionName = "" THEN Rejected("Could not determine collection from SQL")
        ELSE IF q.threw THEN Rejected("TypeError")
        ELSE [t |-> "docs", v |-> [i \in 1..Len(sorted) |-> ConvertId(sorted[i])]]

\* sql.match(/INSERT\s+(?:OR\s+REPLACE\s+)?INTO\s+\w+\s*\((.+?)\)/i)[1]: the tokens
\* of the field list, <<>> when no match
fieldsMatch(sql) ==
    LET j == IF Len(sql) >= 3 /\ sql[2] = "OR" /\ sql[3] = "REPLACE" THEN 4 ELSE 2
        close == IndexFrom(sql, ")", j + 4)
    IN  IF /\ Len(sql) >= j + 4 /\ sql[1] = "INSERT" /\ sql[j] = "INTO"
           /\ IsWord(sql[j + 1]) /\ sql[j + 2] = "(" /\ close # 0
        THEN SubSeq(sql, j + 3, close - 1)
        ELSE <<>>

\* doc[field] = value, id going to _id
SetField(doc, piece, value) ==
    IF Len(piece) # 1 THEN doc
    ELSE IF piece[1] = "id" THEN [doc EXCEPT !["_id"] = value]
    ELSE IF piece[1] \in Fields THEN [doc EXCEPT ![piece[1]] = value]
    ELSE doc

\* fields.forEach((field, index) => { if (params[index] !== undefined) ... })
RECURSIVE FillDoc(_, _, _, _)
FillDoc(doc, fields, params, index) ==
    IF index >= Len(fields) THEN doc
    ELSE FillDoc(IF Param(params, index).t # "undefined"
                 THEN SetField(doc, fields[index + 1], Param(params, index))
                 ELSE doc,
                 fields, params, index + 1)

\* sql.toUpperCase().includes('INSERT OR REPLACE')
IsInsertOrReplace(sql) ==
    \E i \in 1..Len(sql) - 2 :
        sql[i] = "INSERT" /\ sql[i + 1] = "OR" /\ sql[i + 2] = "REPLACE"

\* the INSERT branch of db.runAsync: [coll, ret]; now1 and now2 are what the two
\* new Date() read
runInsert(coll, sql, params, now1, now2, oid) ==
    LET fm == fieldsMatch(sql)
        fields == SplitOn(fm, ",")
        doc0 == FillDoc(EmptyDoc, fields, params, 0)
        doc1 == IF ~Truthy(doc0["created_at"])
                THEN [doc0 EXCEPT !["created_at"] = Date(now1)] ELSE doc0
        doc == IF ~Truthy(doc1["updated_at"])
               THEN [doc1 EXCEPT !["updated_at"] = Date(now2)] ELSE doc1
    IN  IF fm = <<>> THEN [coll |-> coll, ret |-> Rejected("Could not parse INSERT fields")]
        ELSE IF IsInsertOrReplace(sql)
        THEN LET r == replaceOne(coll, doc["_id"], doc)
             IN  [coll |-> r.coll,
                  ret |-> [t |-> "run",
                           v |-> [lastID |-> IF Truthy(doc["_id"]) THEN doc["_id"]
                                             ELSE r.upsertedId,
                                  changes |-> IF r.modifiedCount # 0 THEN r.modifiedCount
                                              ELSE 1]]]
        ELSE LET r == insertOne(coll, doc, oid)
             IN  IF r.threw THEN [coll |-> coll, ret |-> Rejected("E11000 duplicate key")]
                 ELSE [coll |-> r.coll,
                       ret |-> [t |-> "run", v |-> [lastID |-> r.insertedId, changes |-> 1]]]

\* sql.match(/SET\s+(.+?)(?:\s+WHERE|$)/i)[1]: the tokens after the first SET up to
\* the first WHERE behind them; <<>> when no match
RECURSIVE SetEnd(_, _)
SetEnd(sql, j) ==
    IF j > Len(sql) THEN Len(sql)
    ELSE IF sql[j] = "WHERE" THEN j - 1
    ELSE SetEnd(sql, j + 1)

setMatch(sql) ==
    LET i == IndexFrom(sql, "SET", 1)
    IN  IF i = 0 \/ i = Len(sql) THEN <<>>
        ELSE SubSeq(sql, i + 1, SetEnd(sql, i + 2))

\* setFields.forEach((field, index) => ...): [updates, named], named the fields
\* updates holds
RECURSIVE FillUpdates(_, _, _, _, _)
FillUpdates(u, setFields, params, paramOffset, index) ==
    IF index >= Len(setFields) THEN u
    ELSE LET field == setFields[index + 1]
             m == eqMatch(field)
             key == IF m = 0 THEN "" ELSE IF field[m] = "id" THEN "_id" ELSE field[m]
             value == Param(params, paramOffset + index)
         IN  FillUpdates(IF key \in Fields
                         THEN [updates |-> [u.updates EXCEPT ![key] = value],
                               named |-> u.named \cup {key}]
                         ELSE u,
                         setFields, params, paramOffset, index + 1)

\* the updates object of the UPDATE branch: [updates, named]; now1 is what
\* new Date() reads
updatesOf(sql, params, now1) ==
    LET setFields == SplitOn(setMatch(sql), ",")
        \* the number of ? in the WHERE clause
        paramOffset == Count(whereMatch(sql), "?")
        u0 == FillUpdates([updates |-> EmptyDoc, named |-> {}], setFields, params,
                          paramOffset, 0)
    IN  [updates |-> [u0.updates EXCEPT !["updated_at"] = Date(now1)],
         named |-> u0.named \cup {"updated_at"}]

\* the UPDATE branch of db.runAsync: [coll, ret]
runUpdate(coll, sql, params, now1) ==
    LET sm == setMatch(sql)
        q == sqlToMongoQuery(sql, params)
        u == updatesOf(sql, params, now1)
        r == updateOne(coll, q.query, u.updates, u.named)
    IN  IF sm = <<>> THEN [coll |-> coll, ret |-> Rejected("Could not parse UPDATE SET clause")]
        ELSE IF q.threw THEN [coll |-> coll, ret |-> Rejected("TypeError")]
        ELSE IF r.threw THEN [coll |-> coll, ret |-> Rejected("immutable field _id")]
        ELSE [coll |-> r.coll,
              ret |-> [t |-> "run", v |-> [lastID |-> Null, changes |-> r.modifiedCount]]]

\* the DELETE branch of db.runAsync: [coll, ret]
runDelete(coll, sql, params) ==
    LET q == sqlToMongoQuery(sql, params)
        r == deleteOne(coll, q.query)
    IN  IF q.threw THEN [coll |-> coll, ret |-> Rejected("TypeError")]
        ELSE [coll |-> r.coll,
              ret |-> [t |-> "run", v |-> [lastID |-> Null, changes |-> r.deletedCount]]]

\* a runAsync that takes every other statement for a DELETE
runAsyncDeleteByDefault(coll, sql, params, now1, now2, oid) ==
    IF sql[1] = "INSERT" THEN runInsert(coll, sql, params, now1, now2, oid)
    ELSE IF sql[1] = "UPDATE" THEN runUpdate(coll, sql, params, now1)
    ELSE runDelete(coll, sql, params)

\* db.runAsync(sql, params) on the collection coll: [coll, ret]
runAsync(coll, sql, params, now1, now2, oid) ==
    IF getCollectionName(sql) = ""
    THEN [coll |-> coll, ret |-> Rejected("Could not determine collection from SQL")]
    ELSE IF sql[1] = "INSERT" THEN runInsert(coll, sql, params, now1, now2, oid)
    ELSE IF sql[1] = "UPDATE" THEN runUpdate(coll, sql, params, now1)
    ELSE IF sql[1] = "DELETE" THEN runDelete(coll, sql, params)
    ELSE [coll |-> coll, ret |-> Rejected("Unsupported SQL operation for MongoDB")]

----------------------------------------------------------------------------
(* The relational adapter: the literal statement run by SQLite *)

\* the pattern p matches the whole of the text s under LIKE: % any sequence, _ any
\* one character, letters without regard to case
RECURSIVE LikeFull(_, _)
LikeFull(p, s) ==
    IF p = <<>> THEN s = <<>>
    ELSE IF Head(p) = "%"
         THEN LikeFull(Tail(p), s) \/ (s # <<>> /\ LikeFull(p, Tail(s)))
    ELSE IF Head(p) = "_"
         THEN s # <<>> /\ LikeFull(Tail(p), Tail(s))
    ELSE s # <<>> /\ Fold(Head(s)) = Fold(Head(p)) /\ LikeFull(Tail(p), Tail(s))

\* column LIKE ?
SqlLike(have, x) == have.t = "string" /\ x.t = "string" /\ LikeFull(x.v, have.v)

\* the columns the tables declare INTEGER, BOOLEAN or DATETIME
NumericColumns == {"id", "active", "created_at", "updated_at"}

\* the number a bound value compares as in a numeric column; -1 when it is none
SqlNumber(x) ==
    CASE x.t = "number" -> x.v
      [] x.t = "boolean" -> IF x.v THEN 1 ELSE 0
      [] x.t = "string" /\ Len(x.v) = 1 /\ (\E d \in 1..10 : Digits[d] = x.v[1]) ->
            (CHOOSE d \in 1..10 : Digits[d] = x.v[1]) - 1
      [] OTHER -> -1

\* column = value: never true of NULL
SqlEq(column, have, x) ==
    IF have.t \in {"undefined", "null"} \/ x.t \in {"undefined", "null"} THEN FALSE
    ELSE IF column \in NumericColumns
         THEN IF have.t = "number" THEN SqlNumber(x) = have.v ELSE StrictEq(have, x)
    ELSE StrictEq(have, x)

\* the tokens of the WHERE clause: from WHERE to ORDER BY, LIMIT or the end
SqlWhere(sql) ==
    LET w == IndexFrom(sql, "WHERE", 1)
    IN  IF w = 0 THEN <<>> ELSE SubSeq(sql, w + 1, ClauseEnd(sql, w + 1))

\* one condition holds of the row; ps are the values bound to its placeholders
SqlCondition(row, c, ps) ==
    IF c = <<"1", "=", "1">> THEN TRUE
    ELSE IF Len(c) = 3 /\ c[2] = "=" /\ c[1] \in Fields
         THEN SqlEq(c[1], row[c[1]],
                    IF c[3] = "?" THEN Param(ps, 0)
                    ELSE IF \E d \in 1..10 : Digits[d] = c[3]
                         THEN Num((CHOOSE d \in 1..10 : Digits[d] = c[3]) - 1)
                    ELSE Null)
    ELSE IF Len(c) = 3 /\ c[2] = "LIKE" /\ c[3] = "?" /\ c[1] \in Fields
         THEN SqlLike(row[c[1]], Param(ps, 0))
    ELSE IF orLikeMatch(c) = 1 /\ Len(c) = 9 /\ c[2] \in Fields /\ c[6] \in Fields
         THEN SqlLike(row[c[2]], Param(ps, 0)) \/ SqlLike(row[c[6]], Param(ps, 1))
    ELSE FALSE

\* every condition of the clause holds of the row, the placeholders bound from
\* left to right
RECURSIVE SqlConditions(_, _, _)
SqlConditions(row, conds, ps) ==
    IF conds = <<>> THEN TRUE
    ELSE LET n == Count(Head(conds), "?")
         IN  /\ SqlCondition(row, Head(conds), ps)
             /\ SqlConditions(row, Tail(conds), SubSeq(ps, n + 1, Len(ps)))

SqlSelects(row, sql, params) ==
    SqlWhere(sql) = <<>> \/ SqlConditions(row, SplitOn(SqlWhere(sql), "AND"), params)

\* ORDER BY field [ASC | DESC]: the index of ORDER, 0 when the statement has none
SqlOrder(sql) ==
    LET i == IndexFrom(sql, "ORDER", 1)
    IN  IF i # 0 /\ i + 2 <= Len(sql) /\ sql[i + 1] = "BY" THEN i ELSE 0

\* the relational db.allAsync(sql, params): this.all(sql, params, ...)
sqliteAll(table, sql, params) ==
    LET selected == SelectSeq(table, LAMBDA r : SqlSelects(r, sql, params))
        o == SqlOrder(sql)
    IN  IF o # 0 /\ sql[o + 2] \in Fields
        THEN sort(selected, sql[o + 2],
                  IF o + 3 <= Len(sql) /\ sql[o + 3] = "DESC" THEN -1 ELSE 1)
        ELSE selected

\* the relational db.getAsync(sql, params): this.get(sql, params, ...), the first
\* row of the result or undefined
sqliteGet(table, sql, params) ==
    LET all == sqliteAll(table, sql, params)
    IN  IF all = <<>> THEN [t |-> "null", v |-> 0] ELSE [t |-> "doc", v |-> all[1]]

----------------------------------------------------------------------------
(* Bounds *)

\* the most rows of seed data
MaxSeed == 2
\* the most conditions in a generated WHERE clause
MaxConds == 2
\* the most facade calls in a behaviour
MaxCalls == 2
\* the last instant of the clock
MaxClock == 2
\* the last ObjectId the driver generates
MaxOid == 3
\* the number of concurrent callers of initMongo and of the operations
MaxCallers == 2
\* the most calls of initMongo and of operations started in a behaviour
MaxStarts == 2

\* const maxRetries = 3
maxRetries == 3

----------------------------------------------------------------------------
(* Statements, as the call sites write them *)

\* the conditions a WHERE clause is built from
EqId == <<"id", "=", "?">>
EqCategory == <<"category", "=", "?">>
EqActive == <<"active", "=", "?">>
ActiveIsOne == <<"active", "=", "1">>
LikeName == <<"name", "LIKE", "?">>
OrLike == <<"(", "name", "LIKE", "?", "OR", "desc", "LIKE", "?", ")">>

CondShapes == <<EqId, EqCategory, EqActive, ActiveIsOne, LikeName, OrLike>>

\* the one-to-one functions from 1..n into 1..m
InjectiveInto(n, m) ==
    { g \in [1..n -> 1..m] : \A a, b \in 1..n : a # b => g[a] # g[b] }

\* the lists of at most MaxConds different conditions
CondLists ==
    UNION { { [i \in 1..n |-> CondShapes[g[i]]] : g \in InjectiveInto(n, Len(CondShapes)) } :
            n \in 0..MaxConds }

\* c1 AND c2 AND ...
RECURSIVE JoinAnd(_)
JoinAnd(conds) ==
    IF conds = <<>> THEN <<>>
    ELSE IF Len(conds) = 1 THEN conds[1]
    ELSE conds[1] \o <<"AND">> \o JoinAnd(Tail(conds))

\* no ordering, or newest first as router.get('/') asks
OrderBys == { <<>>, <<"ORDER", "BY", "created_at", "DESC">> }

\* the orderings no call site writes behind a list of conditions
OtherOrderBys == { <<"ORDER", "BY", "created_at", "ASC">>, <<"ORDER", "BY", "created_at">> }

\* 'SELECT * FROM products WHERE 1=1' + ' AND ...' + ' ORDER BY ...', the way
\* router.get('/') builds it, and the same without the 1=1
SelectWhere(oneEqOne, conds, orderBy) ==
    <<"SELECT", "*", "FROM", Collection>>
    \o (IF oneEqOne THEN <<"WHERE", "1", "=", "1">> \o (IF conds = <<>> THEN <<>> ELSE <<"AND">>)
        ELSE IF conds = <<>> THEN <<>> ELSE <<"WHERE">>)
    \o JoinAnd(conds) \o orderBy

\* the generated SELECT statements
SelectStmts ==
    { SelectWhere(oneEqOne, conds, orderBy) :
        oneEqOne \in BOOLEAN, conds \in CondLists, orderBy \in OrderBys }
    \cup { SelectWhere(FALSE, conds, orderBy) :
             conds \in { c \in CondLists : Len(c) <= 1 }, orderBy \in OtherOrderBys }

\* router.get('/:id'): 'SELECT * FROM products WHERE id = ?'
SelectById == SelectWhere(FALSE, <<EqId>>, <<>>)

\* 'SELECT * FROM products WHERE active = 1 ORDER BY created_at DESC'
SelectActiveNewestFirst ==
    SelectWhere(FALSE, <<ActiveIsOne>>, <<"ORDER", "BY", "created_at", "DESC">>)

\* 'SELECT COUNT(*) as count FROM products'
SelectCount == <<"SELECT", "COUNT(*)", "as", "count", "FROM", Collection>>

\* a, b, ...
RECURSIVE JoinComma(_)
JoinComma(pieces) ==
    IF pieces = <<>> THEN <<>>
    ELSE IF Len(pieces) = 1 THEN pieces[1]
    ELSE pieces[1] \o <<",">> \o JoinComma(Tail(pieces))

\* the one-token pieces of a list of tokens
Each(tokens) == [i \in 1..Len(tokens) |-> <<tokens[i]>>]

\* 'INSERT [OR REPLACE] INTO products (fields) VALUES (values)'
InsertInto(orReplace, fields, values) ==
    <<"INSERT">> \o (IF orReplace THEN <<"OR", "REPLACE">> ELSE <<>>)
    \o <<"INTO", Collection, "(">> \o JoinComma(Each(fields))
    \o <<")", "VALUES", "(">> \o JoinComma(Each(values)) \o <<")">>

\* 'UPDATE products SET assignments [WHERE conds]'
UpdateSet(assignments, conds) ==
    <<"UPDATE", Collection, "SET">> \o JoinComma(assignments)
    \o (IF conds = <<>> THEN <<>> ELSE <<"WHERE">> \o JoinAnd(conds))

\* 'DELETE FROM products [WHERE conds]'
DeleteFrom(conds) ==
    <<"DELETE", "FROM", Collection>>
    \o (IF conds = <<>> THEN <<>> ELSE <<"WHERE">> \o JoinAnd(conds))

SetName == <<"name", "=", "?">>
SetDesc == <<"desc", "=", "?">>
SetStamp == <<"updated_at", "=", "CURRENT_TIMESTAMP">>

\* the INSERT statements: every value a placeholder, as router.post('/') writes
\* them, and the identifier a literal, as scripts/init-db.js writes it
PlainInserts ==
    { InsertInto(FALSE, <<"name", "desc">>, <<"?", "?">>),
      InsertInto(FALSE, <<"id", "name">>, <<"?", "?">>) }

ReplaceInserts ==
    { InsertInto(TRUE, <<"id", "name">>, <<"?", "?">>),
      InsertInto(TRUE, <<"id", "category", "name">>, <<"1", "'x'", "?">>) }

\* the UPDATE statements: router.put('/me'), router.patch('/:id/status'),
\* updates whose filter may match several documents, and one whose condition is
\* written with a literal
Updates ==
    { UpdateSet(<<SetName, SetDesc>>, <<EqId>>),
      UpdateSet(<<SetName, SetStamp>>, <<EqId>>),
      UpdateSet(<<SetName>>, <<EqCategory>>),
      UpdateSet(<<SetName>>, <<ActiveIsOne>>),
      UpdateSet(<<SetName>>, <<>>) }

\* the DELETE statements: router.delete('/:id'), and deletes by category, by a
\* literal condition and of everything
Deletes ==
    { DeleteFrom(<<EqId>>), DeleteFrom(<<EqCategory>>), DeleteFrom(<<ActiveIsOne>>),
      DeleteFrom(<<>>) }

\* the statements runAsync rejects: no FROM, INTO or UPDATE to take the collection
\* from, a verb that is not INSERT, UPDATE or DELETE, an INSERT without a field list
Unsupported ==
    { <<"DROP", "TABLE", Collection>>,
      <<"SELECT", "*", "FROM", Collection>>,
      <<"INSERT", "INTO", Collection, "VALUES", "(", "?", ")">> }

WriteStmts == PlainInserts \cup ReplaceInserts \cup Updates \cup Deletes \cup Unsupported

\* the statements the read calls of the full machine issue
ReadStmts == { SelectById, SelectActiveNewestFirst, SelectCount }

----------------------------------------------------------------------------
(* Parameter lists: one value for each placeholder, in the order the statement
   writes them *)

\* the placeholders of the VALUES list of an INSERT: [field, op] each
RECURSIVE ValueKinds(_, _, _)
ValueKinds(fields, values, j) ==
    IF j > Len(values) \/ j > Len(fields) THEN <<>>
    ELSE (IF values[j] = <<"?">> /\ Len(fields[j]) = 1
          THEN <<[field |-> fields[j][1], op |-> "VALUE"]>> ELSE <<>>)
         \o ValueKinds(fields, values, j + 1)

\* the placeholders of the other statements: the field and the operator before ?
RECURSIVE ClauseKinds(_, _)
ClauseKinds(sql, i) ==
    IF i > Len(sql) THEN <<>>
    ELSE (IF sql[i] = "?" /\ i >= 3 THEN <<[field |-> sql[i - 2], op |-> sql[i - 1]]>> ELSE <<>>)
         \o ClauseKinds(sql, i + 1)

\* the placeholders of a statement in the order of its text, as SQLite binds them
Placeholders(sql) ==
    IF sql # <<>> /\ sql[1] = "INSERT"
    THEN LET v == IndexFrom(sql, "VALUES", 1)
         IN  IF v = 0 THEN <<>>
             ELSE ValueKinds(SplitOn(fieldsMatch(sql), ","),
                             SplitOn(SubSeq(sql, v + 2, Len(sql) - 1), ","), 1)
    ELSE ClauseKinds(sql, 1)

\* the values a caller passes for a placeholder
Pool(kind) ==
    IF kind.op = "LIKE"
    THEN { Str(<<"%", "a", "%">>), Str(<<"a">>) }
    ELSE CASE kind.field = "id" -> { Num(0), Num(1) }
           [] kind.field = "active" ->
                { Num(1), Num(0), Str(<<"1">>), Bool(TRUE), Str(<<"a">>) }
           [] kind.field = "category" -> { Str(<<"a">>), Str(<<"b">>) }
           [] OTHER -> { Str(<<"b">>) }

RECURSIVE ListsOf(_)
ListsOf(kinds) ==
    IF kinds = <<>> THEN { <<>> }
    ELSE { <<x>> \o rest : x \in Pool(Head(kinds)), rest \in ListsOf(Tail(kinds)) }

ParamLists(sql) == ListsOf(Placeholders(sql))

----------------------------------------------------------------------------
(* Seed data *)

Row(id, name, desc, category, active, created, price) ==
    [EmptyDoc EXCEPT !["id"] = Num(id), !["name"] = Str(name), !["desc"] = Str(desc),
                     !["category"] = Str(category), !["active"] = Num(active),
                     !["created_at"] = Date(created), !["updated_at"] = Date(created),
                     !["price"] = Num(price)]

RowPool ==
    << Row(0, <<"a", "b">>, <<"b">>, <<"a">>, 1, 0, 2),
       Row(1, <<"a">>, <<"b", "a">>, <<"a">>, 0, 1, 3),
       Row(2, <<"B">>, <<"A">>, <<"b">>, 1, 0, 5) >>

\* the tables of at most MaxSeed different rows of the pool, in any order
Seeds ==
    UNION { { [i \in 1..n |-> RowPool[g[i]]] : g \in InjectiveInto(n, Len(RowPool)) } :
            n \in 0..MaxSeed }

\* the document that holds a row: the identifier under _id, active a boolean
DocOfRow(r) ==
    [r EXCEPT !["_id"] = r["id"], !["id"] = Undefined,
              !["active"] = IF r["active"].t = "number" THEN Bool(r["active"].v = 1) ELSE @]

DocsOfRows(table) == [i \in 1..Len(table) |-> DocOfRow(table[i])]

----------------------------------------------------------------------------
(* The state machine.  The store is connected: ensureConnection() returns at
   once, and ensureAdmin() touches the users collection only. *)

NoCall == [op |-> "none", sql |-> <<>>, params |-> <<>>]
NoResult == [t |-> "none", v |-> 0]

Callers == 1..MaxCallers

\* a caller that has not called yet
NoLast ==
    [kind |-> "none", found |-> "none", outcome |-> "none", issuedOn |-> "none",
     reachable |-> TRUE]

\* no request has been posted
NoPost ==
    [n |-> 0, req |-> [complete |-> FALSE, age_confirmed |-> FALSE, items |-> <<>>],
     at |-> "none", i |-> 0, total |-> 0, lastID |-> Undefined, status |-> 0,
     ordersBefore |-> 0, itemsBefore |-> 0]

\* no request has been served
NoRequest == [route |-> "none", token |-> Undefined, id |-> Undefined, body |-> Undefined]
NoResponse == [status |-> 0, body |-> Null]

\* the document adapter in use, no order placed
NoOrders ==
    /\ useMongo = TRUE
    /\ orders = <<>>
    /\ orderItems = <<>>
    /\ post = NoPost
    /\ request = NoRequest
    /\ response = NoResponse

\* initMongo() has connected and ensured the admin user, and nobody is calling
ConnectionUp ==
    /\ mongoClient = 1
    /\ mongoDb = 1
    /\ connected = TRUE
    /\ isConnecting = FALSE
    /\ connectionPromise = "fulfilled"
    /\ adminEnsured = TRUE
    /\ adminRuns = 1
    /\ reachable = TRUE
    /\ pc = [c \in Callers |-> "idle"]
    /\ retries = [c \in Callers |-> 0]
    /\ waited = [c \in Callers |-> <<>>]
    /\ last = [c \in Callers |-> NoLast]
    /\ starts = 0
    /\ alive = TRUE

Init ==
    /\ ConnectionUp
    /\ NoOrders
    /\ rows \in Seeds
    /\ docs = DocsOfRows(rows)
    /\ clock = 1
    /\ nextOid = 1
    /\ call = NoCall
    /\ pre = docs
    /\ ret = NoResult
    /\ calls = 0

\* await db.getAsync(sql, params)
GetAsync(sql, params) ==
    /\ calls < MaxCalls
    /\ call' = [op |-> "getAsync", sql |-> sql, params |-> params]
    /\ pre' = docs
    /\ ret' = getAsync(docs, sql, params)
    /\ calls' = calls + 1
    /\ UNCHANGED <<docs, rows, clock, nextOid>>
    /\ UNCHANGED connVars
    /\ UNCHANGED orderVars
    /\ UNCHANGED routeVars

\* await db.allAsync(sql, params)
AllAsync(sql, params) ==
    /\ calls < MaxCalls
    /\ call' = [op |-> "allAsync", sql |-> sql, params |-> params]
    /\ pre' = docs
    /\ ret' = allAsync(docs, sql, params)
    /\ calls' = calls + 1
    /\ UNCHANGED <<docs, rows, clock, nextOid>>
    /\ UNCHANGED connVars
    /\ UNCHANGED orderVars
    /\ UNCHANGED routeVars

\* await db.runAsync(sql, params); the clock may strike between the two
\* new Date() of an INSERT
RunAsync(sql, params, now2) ==
    /\ calls < MaxCalls
    /\ nextOid <= MaxOid
    /\ now2 <= MaxClock
    /\ now2 = clock \/ (sql[1] = "INSERT" /\ now2 = clock + 1)
    /\ LET r == runAsync(docs, sql, params, clock, now2, nextOid)
       IN  /\ docs' = r.coll
           /\ ret' = r.ret
           /\ nextOid' = IF HasId(r.coll, Oid(nextOid)) THEN nextOid + 1 ELSE nextOid
    /\ call' = [op |-> "runAsync", sql |-> sql, params |-> params]
    /\ pre' = docs
    /\ clock' = now2
    /\ calls' = calls + 1
    /\ UNCHANGED rows
    /\ UNCHANGED connVars
    /\ UNCHANGED orderVars
    /\ UNCHANGED routeVars

\* the calls of the full machine, and the read calls on every generated SELECT
CallsOf(stmts) ==
    UNION { { [sql |-> s, params |-> p] : p \in ParamLists(s) } : s \in stmts }

ReadCalls == CallsOf(ReadStmts)
WriteCalls == CallsOf(WriteStmts)
SelectCalls == CallsOf(SelectStmts)

Next ==
    \/ \E c \in ReadCalls : GetAsync(c.sql, c.params)
    \/ \E c \in ReadCalls : AllAsync(c.sql, c.params)
    \/ \E c \in WriteCalls : \E now2 \in clock..(clock + 1) : RunAsync(c.sql, c.params, now2)

Spec == Init /\ [][Next]_vars

\* the read calls alone, on every generated SELECT statement: the translator as a
\* function of the statement, the parameters and the seed data.  A read leaves
\* the collection as it is, so a behaviour of one call reaches every state.
NextQuery ==
    \/ calls = 0 /\ \E c \in SelectCalls : GetAsync(c.sql, c.params)
    \/ calls = 0 /\ \E c \in SelectCalls : AllAsync(c.sql, c.params)

SpecQuery == Init /\ [][NextQuery]_vars

----------------------------------------------------------------------------
(* The connection: initMongo, ensureConnection and the operations that call it.
   A step of a caller runs from one await to the next.  When the connection
   promise settles, the callers awaiting it go on before anything else happens. *)

\* mongoDb && mongoClient && mongoClient.topology && mongoClient.topology.isConnected()
IsConnected == mongoDb # 0 /\ mongoClient # 0 /\ connected

\* no caller is ever taken to be connecting
NeverConnecting == FALSE

\* isConnecting && connectionPromise
AlreadyConnecting == isConnecting /\ connectionPromise # "null"

\* the awaits inside the connection attempt: mongoClient.close(), mongoClient.connect(),
\* initializeMongoDB(), ensureAdmin(mongoDb), the backoff timer
AttemptStages == {"closing", "connecting", "indexes", "admin", "backoff"}

\* the awaits on connectionPromise: in initMongo, in ensureConnection
JoinedStages == {"joined", "opJoined"}

\* a backoff that starts at one second
waitTimeFromZero(n) == IF 1000 * 2^(n - 1) <= 10000 THEN 1000 * 2^(n - 1) ELSE 10000

\* const waitTime = Math.min(1000 * Math.pow(2, retries), 10000)
waitTime(n) == IF 1000 * 2^n <= 10000 THEN 1000 * 2^n ELSE 10000

\* the handle the store call of an operation goes out on: none, the database of a
\* client since closed, or the database of the present client
HandleOf ==
    IF mongoDb = 0 THEN "nohandle"
    ELSE IF mongoDb # mongoClient THEN "closed"
    ELSE IF connected THEN "connected" ELSE "unconnected"

\* an operation whose faults are swallowed
OutcomeSwallowed(db, reach) == "resolved"

\* how await mongoDb.collection(name).<call>(...) ends inside the async operation:
\* a TypeError on a null handle and a failure of the store reject its promise
OperationOutcome(db, reach) == IF db = 0 \/ ~reach THEN "rejected" ELSE "resolved"

\* the operation, whose ensureConnection() found the connection as given, issues
\* its store call and ends
OperationEnds(found) ==
    [kind |-> "op", found |-> found, outcome |-> OperationOutcome(mongoDb, reachable),
     issuedOn |-> HandleOf, reachable |-> reachable]

\* an operation that goes on to its store call with no client
StoreCallWithoutClient == OperationEnds("absent")

\* throw new Error('MongoDB not initialized. Call initMongo() first.')
NotInitialized ==
    [kind |-> "op", found |-> "absent", outcome |-> "rejected", issuedOn |-> "none",
     reachable |-> reachable]

\* return mongoClient
InitMongoEnds ==
    [kind |-> "init", found |-> "none", outcome |-> "resolved", issuedOn |-> "none",
     reachable |-> reachable]

\* try { await db.initMongo() } catch (error) { console.error(...) }: the listen
\* callback goes on whichever way initMongo ends
AfterInitMongo(outcome) == TRUE

\* catch (error) { next(error) }: the route hands the fault to the error middleware
AfterOperation(outcome) == TRUE

\* the module as loaded: nothing has connected
InitConn ==
    /\ NoOrders
    /\ rows = <<>>
    /\ docs = <<>>
    /\ clock = 1
    /\ nextOid = 1
    /\ call = NoCall
    /\ pre = <<>>
    /\ ret = NoResult
    /\ calls = 0
    /\ mongoClient = 0
    /\ mongoDb = 0
    /\ connected = FALSE
    /\ isConnecting = FALSE
    /\ connectionPromise = "null"
    /\ adminEnsured = FALSE
    /\ adminRuns = 0
    /\ reachable \in BOOLEAN
    /\ pc = [c \in Callers |-> "idle"]
    /\ retries = [c \in Callers |-> 0]
    /\ waited = [c \in Callers |-> <<>>]
    /\ last = [c \in Callers |-> NoLast]
    /\ starts = 0
    /\ alive = TRUE

\* an attempt that ends leaving isConnecting as it was
AttemptEndsFlagLeft(c) ==
    /\ UNCHANGED isConnecting
    /\ connectionPromise' = "fulfilled"
    /\ pc' = [d \in Callers |-> IF d = c \/ pc[d] \in {"joined", "opJoined"} THEN "idle" ELSE pc[d]]
    /\ last' = [d \in Callers |->
                  IF d = c \/ pc[d] = "joined" THEN InitMongoEnds
                  ELSE IF pc[d] = "opJoined" THEN OperationEnds("connecting")
                  ELSE last[d]]
    /\ UNCHANGED alive

\* the connection attempt of caller c ends: isConnecting = false, the promise is
\* fulfilled, initMongo returns mongoClient to c and to the callers that joined,
\* and the operations that joined issue their store calls
AttemptEnds(c) ==
    /\ isConnecting' = FALSE
    /\ connectionPromise' = "fulfilled"
    /\ pc' = [d \in Callers |-> IF d = c \/ pc[d] \in JoinedStages THEN "idle" ELSE pc[d]]
    /\ last' = [d \in Callers |->
                  IF d = c \/ pc[d] = "joined" THEN InitMongoEnds
                  ELSE IF pc[d] = "opJoined" THEN OperationEnds("connecting")
                  ELSE last[d]]
    /\ alive' = (alive /\ AfterInitMongo("resolved")
                 /\ \A d \in Callers :
                       pc[d] = "opJoined" => AfterOperation(OperationEnds("connecting").outcome))

\* initMongo() up to its first await
CallInitMongo(c) ==
    /\ alive /\ pc[c] = "idle" /\ starts < MaxStarts
    /\ starts' = starts + 1
    /\ IF IsConnected
       THEN /\ last' = [last EXCEPT ![c] = InitMongoEnds]
            /\ alive' = (alive /\ AfterInitMongo("resolved"))
            /\ UNCHANGED <<pc, isConnecting, connectionPromise, mongoClient, retries, waited>>
       ELSE IF AlreadyConnecting
       THEN /\ pc' = [pc EXCEPT ![c] = "joined"]
            /\ UNCHANGED <<last, alive, isConnecting, connectionPromise, mongoClient,
                           retries, waited>>
       ELSE /\ isConnecting' = TRUE
            /\ connectionPromise' = "pending"
            /\ retries' = [retries EXCEPT ![c] = 0]
            /\ waited' = [waited EXCEPT ![c] = <<>>]
            /\ IF mongoClient # 0
               THEN pc' = [pc EXCEPT ![c] = "closing"] /\ UNCHANGED mongoClient
               ELSE pc' = [pc EXCEPT ![c] = "connecting"] /\ mongoClient' = mongoClient + 1
            /\ UNCHANGED <<last, alive>>
    /\ UNCHANGED <<mongoDb, connected, adminEnsured, reachable>>
    /\ UNCHANGED adminRuns
    /\ UNCHANGED dataVars
    /\ UNCHANGED orderVars
    /\ UNCHANGED routeVars

\* await mongoClient.close() returns; mongoClient = new MongoClient(...)
CloseDone(c) ==
    /\ alive /\ pc[c] = "closing"
    /\ connected' = FALSE
    /\ mongoClient' = mongoClient + 1
    /\ pc' = [pc EXCEPT ![c] = "connecting"]
    /\ UNCHANGED <<mongoDb, isConnecting, connectionPromise, adminEnsured, reachable,
                   retries, waited, last, starts, alive>>
    /\ UNCHANGED adminRuns
    /\ UNCHANGED dataVars
    /\ UNCHANGED orderVars
    /\ UNCHANGED routeVars

\* await mongoClient.connect() returns; mongoDb = mongoClient.db()
ConnectResolves(c) ==
    /\ alive /\ pc[c] = "connecting" /\ reachable
    /\ mongoDb' = mongoClient
    /\ connected' = TRUE
    /\ pc' = [pc EXCEPT ![c] = "indexes"]
    /\ UNCHANGED <<mongoClient, isConnecting, connectionPromise, adminEnsured, reachable,
                   retries, waited, last, starts, alive>>
    /\ UNCHANGED adminRuns
    /\ UNCHANGED dataVars
    /\ UNCHANGED orderVars
    /\ UNCHANGED routeVars

\* await mongoClient.connect() throws: the catch branch
ConnectRejects(c) ==
    /\ alive /\ pc[c] = "connecting" /\ ~reachable
    /\ retries' = [retries EXCEPT ![c] = @ + 1]
    /\ IF retries[c] + 1 < maxRetries
       THEN /\ waited' = [waited EXCEPT ![c] = Append(@, waitTime(retries[c] + 1))]
            /\ pc' = [pc EXCEPT ![c] = "backoff"]
            /\ UNCHANGED <<isConnecting, connectionPromise, last, alive>>
       ELSE AttemptEnds(c) /\ UNCHANGED waited
    /\ UNCHANGED <<mongoClient, mongoDb, connected, adminEnsured, reachable, starts>>
    /\ UNCHANGED adminRuns
    /\ UNCHANGED dataVars
    /\ UNCHANGED orderVars
    /\ UNCHANGED routeVars

\* the backoff timer fires: the loop tries again, closing the client it has
BackoffDone(c) ==
    /\ alive /\ pc[c] = "backoff"
    /\ pc' = [pc EXCEPT ![c] = "closing"]
    /\ UNCHANGED <<mongoClient, mongoDb, connected, isConnecting, connectionPromise,
                   adminEnsured, reachable, retries, waited, last, starts, alive>>
    /\ UNCHANGED adminRuns
    /\ UNCHANGED dataVars
    /\ UNCHANGED orderVars
    /\ UNCHANGED routeVars

\* await initializeMongoDB() returns
IndexesDone(c) ==
    /\ alive /\ pc[c] = "indexes"
    /\ IF ~adminEnsured
       THEN /\ pc' = [pc EXCEPT ![c] = "admin"]
            /\ adminRuns' = adminRuns + 1
            /\ UNCHANGED <<isConnecting, connectionPromise, last, alive>>
       ELSE AttemptEnds(c) /\ UNCHANGED adminRuns
    /\ UNCHANGED <<mongoClient, mongoDb, connected, adminEnsured, reachable, retries,
                   waited, starts>>
    /\ UNCHANGED dataVars
    /\ UNCHANGED orderVars
    /\ UNCHANGED routeVars

\* await ensureAdmin(mongoDb) returns inside the attempt; adminEnsured = true
AdminDone(c) ==
    /\ alive /\ pc[c] = "admin"
    /\ adminEnsured' = TRUE
    /\ AttemptEnds(c)
    /\ UNCHANGED <<mongoClient, mongoDb, connected, reachable, retries, waited, starts>>
    /\ UNCHANGED adminRuns
    /\ UNCHANGED dataVars
    /\ UNCHANGED orderVars
    /\ UNCHANGED routeVars

\* getAsync, allAsync or runAsync: await ensureConnection() up to its first await,
\* and the store call when ensureConnection() returns at once
CallOperation(c) ==
    /\ alive /\ pc[c] = "idle" /\ starts < MaxStarts
    /\ starts' = starts + 1
    /\ IF IsConnected /\ ~adminEnsured
       THEN /\ pc' = [pc EXCEPT ![c] = "opAdmin"]
            /\ adminRuns' = adminRuns + 1
            /\ UNCHANGED <<last, alive>>
       ELSE IF ~IsConnected /\ mongoClient # 0 /\ AlreadyConnecting
       THEN /\ pc' = [pc EXCEPT ![c] = "opJoined"]
            /\ UNCHANGED <<last, alive, adminRuns>>
       ELSE /\ last' = [last EXCEPT ![c] =
                           IF IsConnected THEN OperationEnds("connected")
                           ELSE IF mongoClient = 0 THEN NotInitialized
                           ELSE OperationEnds("lost")]
            /\ alive' = (alive /\ AfterOperation(last'[c].outcome))
            /\ UNCHANGED <<pc, adminRuns>>
    /\ UNCHANGED <<mongoClient, mongoDb, connected, isConnecting, connectionPromise,
                   adminEnsured, reachable, retries, waited>>
    /\ UNCHANGED dataVars
    /\ UNCHANGED orderVars
    /\ UNCHANGED routeVars

\* await ensureAdmin(mongoDb) returns inside ensureConnection; adminEnsured = true;
\* the operation issues its store call
OperationAdminDone(c) ==
    /\ alive /\ pc[c] = "opAdmin"
    /\ adminEnsured' = TRUE
    /\ pc' = [pc EXCEPT ![c] = "idle"]
    /\ last' = [last EXCEPT ![c] = OperationEnds("connected")]
    /\ alive' = (alive /\ AfterOperation(OperationEnds("connected").outcome))
    /\ UNCHANGED <<mongoClient, mongoDb, connected, isConnecting, connectionPromise,
                   reachable, retries, waited, starts>>
    /\ UNCHANGED adminRuns
    /\ UNCHANGED dataVars
    /\ UNCHANGED orderVars
    /\ UNCHANGED routeVars

\* the connection to the store is lost
LoseConnection ==
    /\ alive /\ connected
    /\ connected' = FALSE
    /\ UNCHANGED <<mongoClient, mongoDb, isConnecting, connectionPromise, adminEnsured,
                   reachable, pc, retries, waited, last, starts, alive>>
    /\ UNCHANGED adminRuns
    /\ UNCHANGED dataVars
    /\ UNCHANGED orderVars
    /\ UNCHANGED routeVars

\* the store becomes unreachable, or reachable again
ReachabilityChanges ==
    /\ alive
    /\ reachable' = ~reachable
    /\ UNCHANGED <<mongoClient, mongoDb, connected, isConnecting, connectionPromise,
                   adminEnsured, pc, retries, waited, last, starts, alive>>
    /\ UNCHANGED adminRuns
    /\ UNCHANGED dataVars
    /\ UNCHANGED orderVars
    /\ UNCHANGED routeVars

\* the steps of the connection attempt caller c runs
AttemptStep(c) ==
    \/ CloseDone(c)
    \/ ConnectResolves(c)
    \/ ConnectRejects(c)
    \/ BackoffDone(c)
    \/ IndexesDone(c)
    \/ AdminDone(c)

NextConn ==
    \/ \E c \in Callers : CallInitMongo(c)
    \/ \E c \in Callers : CallOperation(c)
    \/ \E c \in Callers : AttemptStep(c)
    \/ \E c \in Callers : OperationAdminDone(c)
    \/ LoseConnection
    \/ ReachabilityChanges

SpecConn == InitConn /\ [][NextConn]_vars

\* connect() and close() settle within the driver's timeouts and the backoff
\* timer fires: an attempt under way takes its next step
SpecConnFair == SpecConn /\ \A c \in Callers : WF_vars(AttemptStep(c))

----------------------------------------------------------------------------
(* The statement read as SQL: what the relational adapter does with it *)

\* the number a literal token writes, -1 when the token is no digit
LiteralNumber(tok) ==
    IF \E d \in 1..10 : Digits[d] = tok THEN (CHOOSE d \in 1..10 : Digits[d] = tok) - 1
    ELSE -1

\* the value the VALUES list of an INSERT gives the field: the parameter bound to
\* its placeholder, the literal written in its place, undefined for a field the
\* statement does not list; the word of a status is written as one symbol
ValueFor(sql, params, field) ==
    LET fields == SplitOn(fieldsMatch(sql), ",")
        v == IndexFrom(sql, "VALUES", 1)
        values == SplitOn(SubSeq(sql, v + 2, Len(sql) - 1), ",")
        at == { j \in 1..Len(fields) : fields[j] = <<field>> /\ j <= Len(values) }
    IN  IF v = 0 \/ at = {} THEN Undefined
        ELSE LET j == CHOOSE j \in at : TRUE
                 before == Cardinality({ i \in 1..(j - 1) : values[i] = <<"?">> })
             IN  IF values[j] = <<"?">> THEN Param(params, before)
                 ELSE IF Len(values[j]) = 1 /\ LiteralNumber(values[j][1]) >= 0
                      THEN Num(LiteralNumber(values[j][1]))
                 ELSE IF values[j] = <<"'pending'">> THEN Str(<<"pending">>)
                 ELSE Str(<<"x">>)

----------------------------------------------------------------------------
(* POST /orders: router.post('/') of routes/orders.js on the db object in use *)

\* the parameters SQL binds to the placeholders of the WHERE clause: those that
\* follow the parameters of the placeholders written before it
WhereParams(sql, params) ==
    LET w == IndexFrom(sql, "WHERE", 1)
        n == IF w = 0 THEN 0 ELSE Count(SubSeq(sql, 1, w), "?")
    IN  SubSeq(params, n + 1, Len(params))

\* the alias written before a column (o.user_id, oi.order_id) names its table:
\* the statement with every column under its own name
RECURSIVE Unqualified(_)
Unqualified(sql) ==
    IF sql = <<>> THEN <<>>
    ELSE IF Len(sql) >= 3 /\ sql[1] \in {"o", "u", "oi", "p"} /\ sql[2] = "."
         THEN Unqualified(SubSeq(sql, 3, Len(sql)))
    ELSE <<Head(sql)>> \o Unqualified(Tail(sql))

\* DEFAULT of the column in CREATE TABLE, NULL where it declares none
ColumnDefault(table, f) ==
    IF table = "products" /\ f = "active" THEN Num(1)
    ELSE IF table = "orders" /\ f = "status" THEN Str(<<"pending">>)
    ELSE IF table = "users" /\ f = "role" THEN Str(<<"customer">>)
    ELSE Null

\* the row after the assignments of a SET clause from the i-th on; ps are the
\* parameters not yet bound
RECURSIVE SqlAssign(_, _, _, _, _)
SqlAssign(row, pieces, ps, now, i) ==
    IF i > Len(pieces) THEN row
    ELSE LET piece == pieces[i]
             bound == Len(piece) = 3 /\ piece[3] = "?"
             value == IF bound THEN Stored(Param(ps, 0))
                      ELSE IF Len(piece) = 3 /\ piece[3] = "CURRENT_TIMESTAMP" THEN Date(now)
                      ELSE Null
             assigned == IF Len(piece) = 3 /\ piece[2] = "=" /\ piece[1] \in Fields \ {"_id"}
                         THEN [row EXCEPT ![piece[1]] = value] ELSE row
         IN  SqlAssign(assigned, pieces, IF bound THEN SubSeq(ps, 2, Len(ps)) ELSE ps, now, i + 1)

\* the rows of a table after this.run of the statement: [coll, ret].  An INSERT
\* gives the row the next identifier of the table and the column defaults; an
\* UPDATE assigns to every row the WHERE clause selects, a DELETE removes them;
\* changes is the number of rows written
sqliteRun(table, sql, params, now) ==
    LET id == Len(table) + 1
        tableName == getCollectionName(sql)
        listed == { f \in Fields : ValueFor(sql, params, f) # Undefined }
        row == [f \in Fields |->
                  IF f = "id" THEN Num(id)
                  ELSE IF f = "_id" THEN Undefined
                  ELSE IF f \in {"created_at", "updated_at"} THEN Date(now)
                  ELSE IF f \in listed THEN Stored(ValueFor(sql, params, f))
                  ELSE ColumnDefault(tableName, f)]
        selected == { i \in 1..Len(table) :
                        SqlSelects(table[i], sql, WhereParams(sql, params)) }
        written == [t |-> "run", v |-> [lastID |-> Null, changes |-> Cardinality(selected)]]
    IN  IF sql[1] = "INSERT"
        THEN [coll |-> Append(table, row),
              ret |-> [t |-> "run", v |-> [lastID |-> Num(id), changes |-> 1]]]
        ELSE IF sql[1] = "UPDATE"
        THEN [coll |-> [i \in 1..Len(table) |->
                          IF i \in selected
                          THEN SqlAssign(table[i], SplitOn(setMatch(sql), ","), params, now, 1)
                          ELSE table[i]],
              ret |-> written]
        ELSE [coll |-> SelectSeq(table, LAMBDA r : ~SqlSelects(r, sql, WhereParams(sql, params))),
              ret |-> written]

\* await db.getAsync(sql, params)
dbGet(mongo, coll, sql, params) ==
    IF mongo THEN getAsync(coll, sql, params) ELSE sqliteGet(coll, Unqualified(sql), params)

\* await db.allAsync(sql, params)
dbAll(mongo, coll, sql, params) ==
    IF mongo THEN allAsync(coll, sql, params)
    ELSE [t |-> "docs", v |-> sqliteAll(coll, Unqualified(sql), params)]

\* await db.runAsync(sql, params)
dbRun(mongo, coll, sql, params, now, oid) ==
    IF mongo THEN runAsync(coll, sql, params, now, now, oid)
    ELSE sqliteRun(coll, sql, params, now)

\* the products the db object in use holds
ProductsInUse == IF useMongo THEN docs ELSE rows

SelectPriceOfActive ==
    <<"SELECT", "price", "FROM", "products", "WHERE", "id", "=", "?", "AND", "active", "=", "1">>

SelectPrice == <<"SELECT", "price", "FROM", "products", "WHERE", "id", "=", "?">>

InsertOrder ==
    <<"INSERT", "INTO", "orders", "(">>
    \o JoinComma(Each(<<"user_id", "customer_name", "customer_phone", "delivery_address",
                        "delivery_window", "order_notes", "total", "status">>))
    \o <<")", "VALUES", "(">>
    \o JoinComma(Each(<<"?", "?", "?", "?", "?", "?", "?", "'pending'">>)) \o <<")">>

InsertOrderItem ==
    <<"INSERT", "INTO", "order_items", "(">>
    \o JoinComma(Each(<<"order_id", "product_id", "quantity", "price">>))
    \o <<")", "VALUES", "(">> \o JoinComma(Each(<<"?", "?", "?", "?">>)) \o <<")">>

SelectOrder == <<"SELECT", "*", "FROM", "orders", "WHERE", "id", "=", "?">>

\* the most items of a request, the greatest quantity of an item, the most requests
MaxItems == 2
MaxQuantity == 2
MaxPosts == 1

\* the items a request may name: a product of the pool or one that does not exist
ItemPool ==
    { [product_id |-> Num(id), quantity |-> Num(q)] : id \in 0..Len(RowPool), q \in 1..MaxQuantity }

ItemLists == UNION { [1..n -> ItemPool] : n \in 0..MaxItems }

\* the bodies posted: every required field and the age confirmation with any
\* items, or the items without one of the two
Requests ==
    { [complete |-> TRUE, age_confirmed |-> TRUE, items |-> l] : l \in ItemLists }
    \cup { [complete |-> c, age_confirmed |-> ~c, items |-> <<[product_id |-> Num(0), quantity |-> Num(1)]>>] :
           c \in BOOLEAN }

\* either db object over the same seed data
InitOrders ==
    /\ ConnectionUp
    /\ rows \in Seeds
    /\ docs = DocsOfRows(rows)
    /\ clock = 1
    /\ nextOid = 1
    /\ call = NoCall
    /\ pre = docs
    /\ ret = NoResult
    /\ calls = 0
    /\ useMongo \in BOOLEAN
    /\ orders = <<>>
    /\ orderItems = <<>>
    /\ post = NoPost
    /\ request = NoRequest
    /\ response = NoResponse

\* the handler answers with the status and ends
Responds(status) == [post EXCEPT !.at = "done", !.status = status]

\* POST /orders with the body req, up to the first await
PostOrders(req) ==
    /\ post.at \in {"none", "done"}
    /\ post.n < MaxPosts
    /\ post' = [n |-> post.n + 1, req |-> req,
                at |-> IF ~req.complete \/ req.items = <<>> \/ ~req.age_confirmed
                       THEN "done" ELSE "total",
                i |-> 1, total |-> 0, lastID |-> Undefined,
                status |-> IF ~req.complete \/ req.items = <<>> \/ ~req.age_confirmed
                           THEN 400 ELSE 0,
                ordersBefore |-> Len(orders), itemsBefore |-> Len(orderItems)]
    /\ UNCHANGED <<docs, rows, clock, nextOid, call, pre, ret, calls>>
    /\ UNCHANGED <<useMongo, orders, orderItems>>
    /\ UNCHANGED connVars
    /\ UNCHANGED routeVars

\* one turn of the loop that calculates the total
CalculateTotal ==
    /\ post.at = "total"
    /\ \E product \in {dbGet(useMongo, IF useMongo THEN docs ELSE rows, SelectPriceOfActive,
                             <<post.req.items[post.i].product_id>>)} :
          post' = IF product.t # "doc" THEN Responds(400)
                  ELSE [post EXCEPT
                          !.total = @ + product.v["price"].v * post.req.items[post.i].quantity.v,
                          !.i = IF post.i = Len(post.req.items) THEN 1 ELSE @ + 1,
                          !.at = IF post.i = Len(post.req.items) THEN "order" ELSE @]
    /\ UNCHANGED <<docs, rows, clock, nextOid, call, pre, ret, calls>>
    /\ UNCHANGED <<useMongo, orders, orderItems>>
    /\ UNCHANGED connVars
    /\ UNCHANGED routeVars

\* await db.runAsync(INSERT INTO orders ...)
CreateOrder ==
    /\ post.at = "order"
    /\ \E orderResult \in {dbRun(useMongo, orders, InsertOrder,
                                 <<Null, Str(<<"a">>), Str(<<"a">>), Str(<<"a">>),
                                   Str(<<"A">>), Str(<<>>), Num(post.total)>>,
                                 clock, nextOid)} :
          IF orderResult.ret.t = "rejected"
          THEN post' = Responds(500) /\ UNCHANGED <<orders, nextOid>>
          ELSE /\ orders' = orderResult.coll
               /\ nextOid' = IF useMongo THEN nextOid + 1 ELSE nextOid
               /\ post' = [post EXCEPT !.at = "items", !.lastID = orderResult.ret.v.lastID]
    /\ UNCHANGED <<docs, rows, clock, call, pre, ret, calls>>
    /\ UNCHANGED <<useMongo, orderItems>>
    /\ UNCHANGED connVars
    /\ UNCHANGED routeVars

\* one turn of the loop that creates the order items: the price is read again and
\* the item inserted
CreateOrderItem ==
    /\ post.at = "items"
    /\ \E product \in {dbGet(useMongo, IF useMongo THEN docs ELSE rows, SelectPrice,
                             <<post.req.items[post.i].product_id>>)} :
          IF product.t # "doc"
          THEN post' = Responds(500) /\ UNCHANGED <<orderItems, nextOid>>
          ELSE \E r \in {dbRun(useMongo, orderItems, InsertOrderItem,
                               <<post.lastID, post.req.items[post.i].product_id,
                                 post.req.items[post.i].quantity, product.v["price"]>>,
                               clock, nextOid)} :
                  IF r.ret.t = "rejected"
                  THEN post' = Responds(500) /\ UNCHANGED <<orderItems, nextOid>>
                  ELSE /\ orderItems' = r.coll
                       /\ nextOid' = IF useMongo THEN nextOid + 1 ELSE nextOid
                       /\ post' = [post EXCEPT
                                     !.i = @ + 1,
                                     !.at = IF post.i = Len(post.req.items) THEN "read" ELSE @]
    /\ UNCHANGED <<docs, rows, clock, call, pre, ret, calls>>
    /\ UNCHANGED <<useMongo, orders>>
    /\ UNCHANGED connVars
    /\ UNCHANGED routeVars

\* the order is read back and sent: res.status(201).json(order)
RespondCreated ==
    /\ post.at = "read"
    /\ \E order \in {dbGet(useMongo, orders, SelectOrder, <<post.lastID>>)} :
          post' = IF order.t # "doc" THEN Responds(500) ELSE Responds(201)
    /\ UNCHANGED <<docs, rows, clock, nextOid, call, pre, ret, calls>>
    /\ UNCHANGED <<useMongo, orders, orderItems>>
    /\ UNCHANGED connVars
    /\ UNCHANGED routeVars

NextOrders ==
    \/ \E req \in Requests : PostOrders(req)
    \/ CalculateTotal
    \/ CreateOrder
    \/ CreateOrderItem
    \/ RespondCreated

SpecOrders == InitOrders /\ [][NextOrders]_vars

----------------------------------------------------------------------------
(* The routes behind authenticateToken: routes/products, routes/orders and the
   admin router, each handler taken as one step on the db object in use.  The
   items a response attaches to an order are left out of its body. *)

\* const validStatuses = [...]
validStatuses ==
    { Str(<<"pending">>), Str(<<"confirmed">>), Str(<<"preparing">>),
      Str(<<"out_for_delivery">>), Str(<<"delivered">>), Str(<<"cancelled">>) }

\* the users table: the admin and two customers
UserRows ==
    << [EmptyDoc EXCEPT !["id"] = Num(1), !["role"] = Str(<<"admin">>)],
       [EmptyDoc EXCEPT !["id"] = Num(2), !["role"] = Str(<<"customer">>)],
       [EmptyDoc EXCEPT !["id"] = Num(3), !["role"] = Str(<<"customer">>)] >>

\* the users collection: the admin as ensureAdmin() inserts it, with its role,
\* and the users router.post('/register') inserts, whose INSERT lists no role
Users(mongo) ==
    IF mongo
    THEN [i \in 1..Len(UserRows) |->
            [UserRows[i] EXCEPT !["_id"] = Oid(UserRows[i]["id"].v), !["id"] = Undefined,
                                !["role"] = IF @ = Str(<<"admin">>) THEN @ ELSE Undefined]]
    ELSE UserRows

\* the identifier n as a token carries it (decoded.id) and as a URL writes it
\* (req.params.id): a number and its digit, or the hex string of an ObjectId
TokenOf(mongo, n) == IF mongo THEN Str(<<"#", Digits[n + 1]>>) ELSE Num(n)
UrlId(mongo, n) == IF mongo THEN Str(<<"#", Digits[n + 1]>>) ELSE Str(<<Digits[n + 1]>>)

\* req.user.id of the user n as POST /orders stores it
UserId(mongo, n) == IF mongo THEN Oid(n) ELSE Num(n)

SelectUser ==
    <<"SELECT", "id", ",", "email", ",", "role", "FROM", "users", "WHERE", "id", "=", "?">>

\* authenticateToken: [status, user]; status 0 stands for next().  No token, a
\* user that is not found and a fault of the lookup are answered 401
authenticateToken(mongo, token) ==
    IF token = Undefined THEN [status |-> 401, user |-> EmptyDoc]
    ELSE LET user == dbGet(mongo, Users(mongo), SelectUser, <<token>>)
         IN  IF user.t # "doc" THEN [status |-> 401, user |-> EmptyDoc]
             ELSE [status |-> 0, user |-> user.v]

\* a check that lets every authenticated user through
NobodyRefused(user) == FALSE

\* req.user.role !== 'admin', in requireAdmin and at the head of the admin-only
\* handlers
NotAdmin(user) == user["role"] # Str(<<"admin">>)

InsertProduct ==
    <<"INSERT", "INTO", "products", "(">>
    \o JoinComma(Each(<<"name", "category", "desc", "price", "thc", "image", "stock">>))
    \o <<")", "VALUES", "(">> \o JoinComma(Each(<<"?", "?", "?", "?", "?", "?", "?">>))
    \o <<")">>

UpdateProductSql ==
    <<"UPDATE", "products", "SET">>
    \o JoinComma([i \in 1..8 |->
                    <<(<<"name", "category", "desc", "price", "thc", "image", "stock",
                         "active">>)[i], "=", "?">>]
                 \o <<SetStamp>>)
    \o <<"WHERE", "id", "=", "?">>

DeleteProductSql == <<"DELETE", "FROM", "products", "WHERE", "id", "=", "?">>

\* 'SELECT o.*, u.email FROM orders o LEFT JOIN users u ON o.user_id = u.id'
SelectOrdersJoin ==
    <<"SELECT", "o", ".", "*", ",", "u", ".", "email", "FROM", "orders", "o", "LEFT", "JOIN",
      "users", "u", "ON", "o", ".", "user_id", "=", "u", ".", "id">>

OrderByNewest == <<"ORDER", "BY", "o", ".", "created_at", "DESC">>

\* a list statement that shows every user every order
OrdersSqlForAll(user) == SelectOrdersJoin \o OrderByNewest

\* router.get('/'): sql += ' WHERE o.user_id = ?' unless the user is an admin
OrdersSql(user) ==
    SelectOrdersJoin
    \o (IF NotAdmin(user) THEN <<"WHERE", "o", ".", "user_id", "=", "?">> ELSE <<>>)
    \o OrderByNewest

\* router.get('/:id'): sql += ' AND o.user_id = ?' unless the user is an admin
OrderSql(user) ==
    SelectOrdersJoin \o <<"WHERE", "o", ".", "id", "=", "?">>
    \o (IF NotAdmin(user) THEN <<"AND", "o", ".", "user_id", "=", "?">> ELSE <<>>)

UpdateStatusSql ==
    <<"UPDATE", "orders", "SET", "status", "=", "?", ",">> \o SetStamp
    \o <<"WHERE", "id", "=", "?">>

\* the table after db.runAsync(sql, ps) for each of the parameter lists in turn,
\* on an empty table; the store assigns the identifiers 1, 2, ...
RECURSIVE Inserted(_, _, _)
Inserted(mongo, sql, lists) ==
    IF lists = <<>> THEN <<>>
    ELSE dbRun(mongo, Inserted(mongo, sql, SubSeq(lists, 1, Len(lists) - 1)), sql,
               lists[Len(lists)], 1, Len(lists)).coll

\* the parameters of the INSERT of router.post('/') of routes/products
ProductParams(body) ==
    <<body.name, body.category, Str(<<>>), body.price, Num(0), Str(<<>>), Num(0)>>

\* the parameters of the INSERT of router.post('/') of routes/orders for the user
OrderParams(userId, total) ==
    <<userId, Str(<<"a">>), Str(<<"a">>), Str(<<"a">>), Str(<<"A">>), Str(<<>>), Num(total)>>

\* the bodies posted to /products: complete, and without a name
ProductBodies ==
    { [name |-> Str(<<"a">>), category |-> Str(<<"a">>), price |-> Num(2)],
      [name |-> Undefined, category |-> Str(<<"a">>), price |-> Num(2)] }

\* the products the store holds at the start, as POST /products made them
SeedProducts ==
    << <<Str(<<"a">>), Str(<<"a">>), Str(<<>>), Num(2), Num(0), Str(<<>>), Num(0)>>,
       <<Str(<<"b">>), Str(<<"b">>), Str(<<>>), Num(3), Num(0), Str(<<>>), Num(0)>> >>

\* who placed the orders the store holds at the start: user numbers, 0 a guest
PlacedBy == { <<>>, <<2>>, <<2, 3>>, <<3, 0>> }

\* the tokens presented: none, or one of a stored user
Tokens(mongo) == {Undefined} \cup { TokenOf(mongo, n) : n \in 1..Len(UserRows) }

\* the identifiers written in the URL; the last names nothing at the start
UrlIds(mongo) == { UrlId(mongo, n) : n \in 1..3 }

\* the status a PATCH carries: one of the valid ones and one that is not
StatusPool == { Str(<<"confirmed">>), Str(<<"shipped">>) }

\* products and orders created through the db object in use
InitRoutes ==
    /\ ConnectionUp
    /\ useMongo \in BOOLEAN
    /\ rows = Inserted(FALSE, InsertProduct, SeedProducts)
    /\ docs = Inserted(TRUE, InsertProduct, SeedProducts)
    /\ \E by \in PlacedBy :
          orders = Inserted(useMongo, InsertOrder,
                            [i \in 1..Len(by) |->
                               OrderParams(IF by[i] = 0 THEN Null ELSE UserId(useMongo, by[i]),
                                           2)])
    /\ orderItems = <<>>
    /\ post = NoPost
    /\ clock = 1
    /\ nextOid = Len(SeedProducts) + 1
    /\ call = NoCall
    /\ pre = <<>>
    /\ ret = NoResult
    /\ calls = 0
    /\ request = NoRequest
    /\ response = NoResponse

\* the products become coll on the db object in use
ProductsBecome(coll) ==
    IF useMongo THEN docs' = coll /\ UNCHANGED rows ELSE rows' = coll /\ UNCHANGED docs

\* a request arrives once the one before it has been answered;
\* res.status(status).json(sent) answers it
Answer(route, token, id, body, status, sent) ==
    /\ request' = [route |-> route, token |-> token, id |-> id, body |-> body]
    /\ response' = [status |-> status, body |-> sent]

\* the body res.json() sends for what getAsync returned
Json(got) == IF got.t = "doc" THEN got.v ELSE Null

\* router.post('/') of routes/products; the store numbers the product nextOid
CreateProduct(token, body) ==
    /\ request = NoRequest
    /\ nextOid <= MaxOid
    /\ \E auth \in {authenticateToken(useMongo, token)} :
          IF auth.status # 0 \/ NotAdmin(auth.user)
             \/ ~Truthy(body.name) \/ ~Truthy(body.category) \/ body.price = Undefined
          THEN /\ Answer("POST /products", token, Undefined, body,
                         IF auth.status # 0 THEN auth.status
                         ELSE IF NotAdmin(auth.user) THEN 403 ELSE 400, Null)
               /\ UNCHANGED <<docs, rows, nextOid>>
          ELSE \E result \in {dbRun(useMongo, ProductsInUse, InsertProduct,
                                    ProductParams(body), clock, nextOid)} :
                  /\ result.ret.t = "run"
                  /\ result.ret.v.lastID \in {Num(nextOid), Oid(nextOid)}
                  /\ ProductsBecome(result.coll)
                  /\ nextOid' = nextOid + 1
                  /\ Answer("POST /products", token, Undefined, body, 201,
                            Json(dbGet(useMongo, result.coll, SelectById,
                                       <<result.ret.v.lastID>>)))
    /\ UNCHANGED <<clock, call, pre, ret, calls>>
    /\ UNCHANGED orderVars
    /\ UNCHANGED connVars

\* router.put('/:id') of routes/products with a body that names a price
UpdateProduct(token, id, price) ==
    /\ request = NoRequest
    /\ \E auth \in {authenticateToken(useMongo, token)},
          existing \in {dbGet(useMongo, ProductsInUse, SelectById, <<id>>)} :
          IF auth.status # 0 \/ NotAdmin(auth.user) \/ existing.t # "doc"
          THEN /\ Answer("PUT /products/:id", token, id, price,
                         IF auth.status # 0 THEN auth.status
                         ELSE IF NotAdmin(auth.user) THEN 403
                         ELSE IF existing.t = "rejected" THEN 500 ELSE 404, Null)
               /\ UNCHANGED <<docs, rows>>
          ELSE \E result \in {dbRun(useMongo, ProductsInUse, UpdateProductSql,
                                    <<existing.v["name"], existing.v["category"],
                                      existing.v["desc"], price, Undefined, Undefined,
                                      Undefined, existing.v["active"], id>>,
                                    clock, nextOid)} :
                  IF result.ret.t = "rejected"
                  THEN /\ Answer("PUT /products/:id", token, id, price, 500, Null)
                       /\ UNCHANGED <<docs, rows>>
                  ELSE /\ ProductsBecome(result.coll)
                       /\ Answer("PUT /products/:id", token, id, price, 200,
                                 Json(dbGet(useMongo, result.coll, SelectById, <<id>>)))
    /\ UNCHANGED <<clock, nextOid, call, pre, ret, calls>>
    /\ UNCHANGED orderVars
    /\ UNCHANGED connVars

\* router.delete('/:id') of routes/products
DeleteProduct(token, id) ==
    /\ request = NoRequest
    /\ \E auth \in {authenticateToken(useMongo, token)} :
          IF auth.status # 0 \/ NotAdmin(auth.user)
          THEN /\ Answer("DELETE /products/:id", token, id, Undefined,
                         IF auth.status # 0 THEN auth.status ELSE 403, Null)
               /\ UNCHANGED <<docs, rows>>
          ELSE \E result \in {dbRun(useMongo, ProductsInUse, DeleteProductSql, <<id>>,
                                    clock, nextOid)} :
                  IF result.ret.t = "rejected" \/ result.ret.v.changes = 0
                  THEN /\ Answer("DELETE /products/:id", token, id, Undefined,
                                 IF result.ret.t = "rejected" THEN 500 ELSE 404, Null)
                       /\ UNCHANGED <<docs, rows>>
                  ELSE /\ ProductsBecome(result.coll)
                       /\ Answer("DELETE /products/:id", token, id, Undefined, 204, Null)
    /\ UNCHANGED <<clock, nextOid, call, pre, ret, calls>>
    /\ UNCHANGED orderVars
    /\ UNCHANGED connVars

\* router.get('/:id') of routes/products: optionalAuth lets every request through
GetProduct(id) ==
    /\ request = NoRequest
    /\ \E product \in {dbGet(useMongo, ProductsInUse, SelectById, <<id>>)} :
          Answer("GET /products/:id", Undefined, id, Undefined,
                 IF product.t = "rejected" THEN 500
                 ELSE IF product.t # "doc" THEN 404 ELSE 200, Json(product))
    /\ UNCHANGED dataVars
    /\ UNCHANGED orderVars
    /\ UNCHANGED connVars

\* router.get('/') of routes/orders
GetOrders(token) ==
    /\ request = NoRequest
    /\ \E auth \in {authenticateToken(useMongo, token)} :
          IF auth.status # 0
          THEN Answer("GET /orders", token, Undefined, Undefined, auth.status, Null)
          ELSE \E found \in {dbAll(useMongo, orders, OrdersSql(auth.user),
                                   IF NotAdmin(auth.user) THEN <<auth.user["id"]>>
                                   ELSE <<>>)} :
                  Answer("GET /orders", token, Undefined, Undefined,
                         IF found.t = "rejected" THEN 500 ELSE 200,
                         IF found.t = "rejected" THEN Null ELSE found.v)
    /\ UNCHANGED dataVars
    /\ UNCHANGED orderVars
    /\ UNCHANGED connVars

\* router.get('/:id') of routes/orders
GetOrder(token, id) ==
    /\ request = NoRequest
    /\ \E auth \in {authenticateToken(useMongo, token)} :
          IF auth.status # 0
          THEN Answer("GET /orders/:id", token, id, Undefined, auth.status, Null)
          ELSE \E order \in {dbGet(useMongo, orders, OrderSql(auth.user),
                                   <<id>> \o (IF NotAdmin(auth.user)
                                              THEN <<auth.user["id"]>> ELSE <<>>))} :
                  Answer("GET /orders/:id", token, id, Undefined,
                         IF order.t = "rejected" THEN 500
                         ELSE IF order.t # "doc" THEN 404 ELSE 200, Json(order))
    /\ UNCHANGED dataVars
    /\ UNCHANGED orderVars
    /\ UNCHANGED connVars

\* router.patch('/:id/status') of routes/orders: res.json(order) whatever the
\* row read back
PatchStatus(token, id, status) ==
    /\ request = NoRequest
    /\ \E auth \in {authenticateToken(useMongo, token)} :
          IF auth.status # 0 \/ NotAdmin(auth.user) \/ status \notin validStatuses
          THEN /\ Answer("PATCH /orders/:id/status", token, id, status,
                         IF auth.status # 0 THEN auth.status
                         ELSE IF NotAdmin(auth.user) THEN 403 ELSE 400, Null)
               /\ UNCHANGED orders
          ELSE \E result \in {dbRun(useMongo, orders, UpdateStatusSql, <<status, id>>,
                                    clock, nextOid)} :
                  IF result.ret.t = "rejected"
                  THEN /\ Answer("PATCH /orders/:id/status", token, id, status, 500, Null)
                       /\ UNCHANGED orders
                  ELSE /\ orders' = result.coll
                       /\ Answer("PATCH /orders/:id/status", token, id, status, 200,
                                 Json(dbGet(useMongo, result.coll, SelectOrder, <<id>>)))
    /\ UNCHANGED dataVars
    /\ UNCHANGED <<useMongo, orderItems, post>>
    /\ UNCHANGED connVars

\* router.get('/orders') of the admin router, behind router.use(authenticateToken)
\* and router.use(requireAdmin)
GetAdminOrders(token) ==
    /\ request = NoRequest
    /\ \E auth \in {authenticateToken(useMongo, token)} :
          IF auth.status # 0 \/ NotAdmin(auth.user)
          THEN Answer("GET /admin/orders", token, Undefined, Undefined,
                      IF auth.status # 0 THEN auth.status ELSE 403, Null)
          ELSE \E found \in {dbAll(useMongo, orders,
                                   SelectOrdersJoin \o OrderByNewest \o <<"LIMIT", "100">>,
                                   <<>>)} :
                  Answer("GET /admin/orders", token, Undefined, Undefined,
                         IF found.t = "rejected" THEN 500 ELSE 200,
                         IF found.t = "rejected" THEN Null ELSE found.v)
    /\ UNCHANGED dataVars
    /\ UNCHANGED orderVars
    /\ UNCHANGED connVars

\* the response has gone out: the server takes the next request
ResponseSent ==
    /\ request # NoRequest
    /\ request' = NoRequest
    /\ response' = NoResponse
    /\ UNCHANGED dataVars
    /\ UNCHANGED orderVars
    /\ UNCHANGED connVars

NextRoutes ==
    \/ \E token \in Tokens(useMongo), body \in ProductBodies : CreateProduct(token, body)
    \/ \E token \in Tokens(useMongo), id \in UrlIds(useMongo) :
          UpdateProduct(token, id, Num(7))
    \/ \E token \in Tokens(useMongo), id \in UrlIds(useMongo) : DeleteProduct(token, id)
    \/ \E id \in UrlIds(useMongo) : GetProduct(id)
    \/ \E token \in Tokens(useMongo) : GetOrders(token)
    \/ \E token \in Tokens(useMongo), id \in UrlIds(useMongo) : GetOrder(token, id)
    \/ \E token \in Tokens(useMongo), id \in UrlIds(useMongo), status \in StatusPool :
          PatchStatus(token, id, status)
    \/ \E token \in Tokens(useMongo) : GetAdminOrders(token)
    \/ ResponseSent

SpecRoutes == InitRoutes /\ [][NextRoutes]_vars

----------------------------------------------------------------------------
(* POST /orders among the requests of an admin.  Every await of its handler is
   a point where another request's handler runs: the steps of POST /orders
   interleave with product updates, product deletions and status patches. *)

\* the items a body names: a product of the catalogue, as the db object in use
\* identifies it, and a quantity
RaceItems(mongo) ==
    { [product_id |-> IF mongo THEN UrlId(mongo, n) ELSE Num(n), quantity |-> Num(q)] :
        n \in 1..Len(SeedProducts), q \in 1..MaxQuantity }

\* the bodies posted: every required field, the age confirmation and the items
RaceRequests(mongo) ==
    { [complete |-> TRUE, age_confirmed |-> TRUE, items |-> l] :
        l \in UNION { [1..n -> RaceItems(mongo)] : n \in 1..MaxItems } }

\* the catalogue created through the db object in use, and no order yet
InitRace ==
    /\ ConnectionUp
    /\ useMongo \in BOOLEAN
    /\ rows = Inserted(FALSE, InsertProduct, SeedProducts)
    /\ docs = Inserted(TRUE, InsertProduct, SeedProducts)
    /\ orders = <<>>
    /\ orderItems = <<>>
    /\ post = NoPost
    /\ clock = 1
    /\ nextOid = Len(SeedProducts) + 1
    /\ call = NoCall
    /\ pre = <<>>
    /\ ret = NoResult
    /\ calls = 0
    /\ request = NoRequest
    /\ response = NoResponse

NextRace ==
    \/ \E req \in RaceRequests(useMongo) : PostOrders(req)
    \/ CalculateTotal
    \/ CreateOrder
    \/ CreateOrderItem
    \/ RespondCreated
    \/ \E id \in UrlIds(useMongo) : UpdateProduct(TokenOf(useMongo, 1), id, Num(7))
    \/ \E id \in UrlIds(useMongo) : DeleteProduct(TokenOf(useMongo, 1), id)
    \/ \E id \in UrlIds(useMongo), status \in StatusPool :
          PatchStatus(TokenOf(useMongo, 1), id, status)
    \/ ResponseSent

SpecRace == InitRace /\ [][NextRace]_vars

----------------------------------------------------------------------------
(* Properties *)

\* the identifier a returned row is known by
LogicalId(d) == IF d["id"].t # "undefined" THEN d["id"] ELSE d["_id"]

IdsOf(found) == { LogicalId(found[i]) : i \in 1..Len(found) }

IsRead == call.op \in {"getAsync", "allAsync"}

IsRun(verb) == call.op = "runAsync" /\ call.sql[1] = verb /\ ret.t = "run"

\* the statement has no literal condition: every condition is field = ?,
\* field LIKE ? or (f1 LIKE ? OR f2 LIKE ?)
OnlyPlaceholderConditions(sql) == ~Includes(sql, "1")

\* C1: for every statement built from the supported condition shapes and every
\* parameter list, a read through the document adapter returns the same logical
\* rows as the literal statement run by the relational adapter on the same seed
\* data: allAsync the same set of identifiers, getAsync a row of that set, and
\* nothing exactly when the set is empty.
C1_SameRowsAsRelational ==
    (IsRead /\ OnlyPlaceholderConditions(call.sql) /\ docs = DocsOfRows(rows)) =>
        LET all == sqliteAll(rows, call.sql, call.params)
        IN  IF call.op = "allAsync"
            THEN ret.t = "docs" /\ IdsOf(ret.v) = IdsOf(all)
            ELSE IF all = <<>> THEN ret.t = "null"
            ELSE ret.t = "doc" /\ LogicalId(ret.v) \in IdsOf(all)

\* the SET assignments of the UPDATE are all placeholders and its WHERE clause is
\* id = ?
IsSetByPlaceholdersWhereId(sql) ==
    /\ whereMatch(sql) = EqId
    /\ Count(setMatch(sql), "?") = Len(SplitOn(setMatch(sql), ","))

\* C2: UPDATE c SET f1 = ?, ..., fn = ? WHERE id = ? called with [v1, ..., vn, w]
\* sets fi to vi, for every i, on the document whose identifier is w.
C2_UpdateBindsLeftToRight ==
    (IsRun("UPDATE") /\ IsSetByPlaceholdersWhereId(call.sql)) =>
        LET n == Len(call.params) - 1
            kinds == Placeholders(call.sql)
        IN  /\ Len(docs) = Len(pre)
            /\ \A i \in 1..Len(pre) :
                  StrictEq(pre[i]["_id"], call.params[n + 1]) =>
                      \A k \in 1..n : docs[i][kinds[k].field] = call.params[k]

\* the filter holds what binding the value x to the placeholder [field, op] puts
\* there
BoundIn(query, kind, x) ==
    IF kind.op = "LIKE"
    THEN LET re == LikeToRegex(x.v)
         IN  \/ query[kind.field] = CondRegex(re)
             \/ /\ query["$or"].t = "or"
                /\ \/ query["$or"].v[1] = kind.field /\ query["$or"].v[2] = re
                   \/ query["$or"].v[3] = kind.field /\ query["$or"].v[4] = re
    ELSE IF kind.field = "id" THEN query["_id"] = CondEq(IdValue(x))
    ELSE IF kind.field = "active"
         THEN query["active"] = CondEq(Bool(\/ StrictEq(x, Num(1))
                                            \/ StrictEq(x, Bool(TRUE))
                                            \/ StrictEq(x, Str(<<"1">>))))
    ELSE query[kind.field] = CondEq(x)

\* C3: the k-th ? of a WHERE clause, in the order of the text, is bound to the
\* k-th element of the parameter list, for every WHERE clause and every k.
C3_PlaceholdersBoundInOrder ==
    IsRead =>
        LET kinds == Placeholders(call.sql)
            q == sqlToMongoQuery(call.sql, call.params).query
        IN  \A k \in 1..Len(kinds) : BoundIn(q, kinds[k], call.params[k])

\* C4: the condition (field1 LIKE ? OR field2 LIKE ?) consumes exactly two
\* parameters, and the filter matches a document iff field1 matches the first
\* pattern or field2 matches the second.
C4_OrLikeIsDisjunction ==
    (IsRead /\ StripOneEqOne(whereMatch(call.sql)) = OrLike) =>
        LET t == sqlToMongoQuery(call.sql, call.params)
            re1 == LikeToRegex(call.params[1].v)
            re2 == LikeToRegex(call.params[2].v)
        IN  /\ t.paramIndex = 2
            /\ \A i \in 1..Len(docs) :
                  Matches(docs[i], t.query) <=>
                      \/ RegexMatches(docs[i][OrLike[2]], re1)
                      \/ RegexMatches(docs[i][OrLike[6]], re2)

\* the rows come newest first
NewestFirst(found) ==
    \A i \in 1..(Len(found) - 1) :
        ~ValueLess(found[i]["created_at"], found[i + 1]["created_at"])

\* C5: allAsync("SELECT * FROM products WHERE active = 1 ORDER BY created_at DESC")
\* returns only active products, newest first, in the document adapter and in the
\* relational adapter.
C5_ActiveNewestFirst ==
    (call.op = "allAsync" /\ call.sql = SelectActiveNewestFirst) =>
        LET all == sqliteAll(rows, call.sql, call.params)
        IN  /\ ret.t = "docs"
            /\ \A i \in 1..Len(ret.v) : ret.v[i]["active"] = Bool(TRUE)
            /\ NewestFirst(ret.v)
            /\ \A i \in 1..Len(all) : all[i]["active"] = Num(1)
            /\ NewestFirst(all)

\* the row shows its identifier under id and has no _id
ShowsIdOnly(d) == d["id"].t # "undefined" /\ d["_id"].t = "undefined"

\* C6: every document getAsync or allAsync returns carries its identifier under
\* id and has no _id, whatever the stored identifier is.
C6_OnlyIdVisible ==
    /\ (IsRead /\ ret.t = "doc") => ShowsIdOnly(ret.v)
    /\ (IsRead /\ ret.t = "docs") => \A i \in 1..Len(ret.v) : ShowsIdOnly(ret.v[i])

\* C7: an UPDATE whose filter matches N documents gives all N of them the new
\* values.
C7_UpdateReachesAllMatches ==
    IsRun("UPDATE") =>
        LET q == sqlToMongoQuery(call.sql, call.params).query
            u == updatesOf(call.sql, call.params, clock)
        IN  /\ Len(docs) = Len(pre)
            /\ \A i \in 1..Len(pre) :
                  Matches(pre[i], q) => docs[i] = SetFields(pre[i], u.updates, u.named)

\* C8: a DELETE removes exactly one document when at least one matches its
\* filter, never more than one even if several match, and none when none matches;
\* the changes it reports is the number of documents removed.
C8_DeleteRemovesOne ==
    IsRun("DELETE") =>
        LET q == sqlToMongoQuery(call.sql, call.params).query
            n == countDocuments(pre, q)
        IN  /\ Len(docs) = Len(pre) - (IF n >= 1 THEN 1 ELSE 0)
            /\ ret.v.changes = Len(pre) - Len(docs)
            /\ n >= 1 => \E i \in 1..Len(pre) : Matches(pre[i], q) /\ docs = RemoveAt(pre, i)
            /\ n = 0 => docs = pre

\* a DELETE whose filter matched several documents has removed one of them
C8_DeleteAmongSeveral ==
    /\ IsRun("DELETE")
    /\ countDocuments(pre, sqlToMongoQuery(call.sql, call.params).query) >= 2
    /\ Len(docs) = Len(pre) - 1
    /\ ret.v.changes = 1

\* C9: INSERT OR REPLACE with an identifier that exists overwrites that document
\* and no other and leaves the number of documents as it was; a plain INSERT
\* leaves every existing document as it was.
C9_ReplaceOverwritesInsertDoesNot ==
    IsRun("INSERT") =>
        LET id == ValueFor(call.sql, call.params, "id")
        IN  IF IsInsertOrReplace(call.sql)
            THEN HasId(pre, id) =>
                    /\ Len(docs) = Len(pre)
                    /\ \A i \in 1..Len(pre) :
                          IF StrictEq(pre[i]["_id"], id)
                          THEN docs[i]["name"] = Stored(ValueFor(call.sql, call.params, "name"))
                          ELSE docs[i] = pre[i]
            ELSE /\ Len(docs) = Len(pre) + 1
                 /\ \A i \in 1..Len(pre) : docs[i] = pre[i]

\* C10: after a plain INSERT has returned the identifier the store assigned,
\* getAsync by that identifier returns the inserted document: it holds the
\* inserted values, and created_at and updated_at are populated and equal.
C10_InsertedDocReadBack ==
    (IsRun("INSERT") /\ ~IsInsertOrReplace(call.sql) /\ ret.v.lastID.t = "objectid") =>
        LET got == getAsync(docs, SelectById, <<ret.v.lastID>>)
            kinds == Placeholders(call.sql)
        IN  /\ got.t = "doc"
            /\ got.v["id"] = ret.v.lastID
            /\ \A k \in 1..Len(kinds) : got.v[kinds[k].field] = call.params[k]
            /\ Truthy(got.v["created_at"])
            /\ Truthy(got.v["updated_at"])
            /\ got.v["created_at"] = got.v["updated_at"]

\* the statement has no OR-LIKE condition, so that the parameter a condition
\* consumes is the one written for its placeholder
NoOrLike(sql) == ~Includes(sql, "OR")

\* C11: for a condition active = ? the filter value of active is a boolean: true
\* when the consumed parameter is 1, '1' or true, false for every other value.
C11_ActiveIsBoolean ==
    IsRead =>
        LET kinds == Placeholders(call.sql)
            q == sqlToMongoQuery(call.sql, call.params).query
        IN  \A k \in 1..Len(kinds) :
                (kinds[k].field = "active" /\ kinds[k].op = "=") =>
                    /\ q["active"].t = "eq"
                    /\ q["active"].v.t = "boolean"
                    /\ NoOrLike(call.sql) =>
                          q["active"].v.v = (\/ call.params[k] = Num(1)
                                             \/ call.params[k] = Str(<<"1">>)
                                             \/ call.params[k] = Bool(TRUE))

\* a read with active = ? has taken the string '1' for true
C11_ActiveFromStringOne ==
    /\ IsRead /\ NoOrLike(call.sql)
    /\ \E k \in 1..Len(call.params) :
          /\ Placeholders(call.sql)[k].field = "active"
          /\ call.params[k] = Str(<<"1">>)
    /\ sqlToMongoQuery(call.sql, call.params).query["active"] = CondEq(Bool(TRUE))

\* the statement begins its WHERE clause with 1 = 1 AND
HasOneEqOne(sql) ==
    LET w == IndexFrom(sql, "WHERE", 1)
    IN  w # 0 /\ w + 4 <= Len(sql) /\ SubSeq(sql, w + 1, w + 4) = <<"1", "=", "1", "AND">>

\* the statement written without the prefix: WHERE 1 = 1 AND C becomes WHERE C
WithoutOneEqOne(sql) ==
    LET w == IndexFrom(sql, "WHERE", 1)
    IN  SubSeq(sql, 1, w) \o SubSeq(sql, w + 5, Len(sql))

\* C12: translating WHERE 1=1 AND C yields the same filter, with the same
\* parameters consumed, as translating WHERE C, for every condition list C and
\* parameter list; stripping what has been stripped changes nothing.
C12_OneEqOneIsNeutral ==
    (IsRead /\ HasOneEqOne(call.sql)) =>
        LET without == WithoutOneEqOne(call.sql)
            stripped == StripOneEqOne(whereMatch(call.sql))
        IN  /\ sqlToMongoQuery(call.sql, call.params) = sqlToMongoQuery(without, call.params)
            /\ StripOneEqOne(stripped) = stripped
            /\ stripped = whereMatch(without)

\* a read of WHERE 1 = 1 AND two conditions, each of which reached the filter
C12_TwoConditionsBehindOneEqOne ==
    /\ IsRead /\ HasOneEqOne(call.sql)
    /\ call.sql[IndexFrom(call.sql, "WHERE", 1) + 5] = "category"
    /\ Len(call.params) = 2
    /\ sqlToMongoQuery(call.sql, call.params).query["category"] = CondEq(call.params[1])
    /\ sqlToMongoQuery(call.sql, call.params).query["_id"] = CondEq(call.params[2])

\* the documents come in the order of the field: ascending for direction 1,
\* descending for -1
InOrder(found, field, direction) ==
    \A i \in 1..(Len(found) - 1) :
        IF direction = 1 THEN ~ValueLess(found[i + 1][field], found[i][field])
        ELSE ~ValueLess(found[i][field], found[i + 1][field])

\* C13: allAsync on a statement ending in ORDER BY field [ASC | DESC] returns the
\* documents sorted by that field: ascending when no direction is given and for
\* ASC, descending for DESC.
C13_OrderByDirection ==
    (call.op = "allAsync" /\ SqlOrder(call.sql) # 0 /\ ret.t = "docs") =>
        LET o == SqlOrder(call.sql)
        IN  InOrder(ret.v, call.sql[o + 2],
                    IF o + 3 <= Len(call.sql) /\ call.sql[o + 3] = "DESC" THEN -1 ELSE 1)

\* the statement is one that runAsync has to refuse
IsRefused(sql) ==
    \/ getCollectionName(sql) = ""
    \/ sql[1] = "INSERT" /\ fieldsMatch(sql) = <<>>
    \/ sql[1] \notin {"INSERT", "UPDATE", "DELETE"}

\* C18: runAsync rejects, and leaves the collection as it was, when no collection
\* name can be taken from the statement, when the field list of an INSERT cannot
\* be parsed, or when the verb is not INSERT, UPDATE or DELETE.
C18_RefusedStatementsChangeNothing ==
    (call.op = "runAsync" /\ IsRefused(call.sql)) => (ret.t = "rejected" /\ docs = pre)

\* a statement with a collection and a verb that is none of the three has been
\* rejected on a collection that holds documents
C18_UnsupportedVerbRejected ==
    /\ call.op = "runAsync"
    /\ getCollectionName(call.sql) # ""
    /\ call.sql[1] \notin {"INSERT", "UPDATE", "DELETE"}
    /\ ret = Rejected("Unsupported SQL operation for MongoDB")
    /\ docs = pre
    /\ docs # <<>>

\* the condition has one of the three shapes the translator knows
Recognised(condition) ==
    eqMatch(condition) # 0 \/ likeMatch(condition) # 0 \/ orLikeMatch(condition) # 0

\* the conditions of the WHERE clause, as the translator splits them
ConditionsOf(sql) == SplitOn(StripOneEqOne(whereMatch(sql)), "AND")

\* C19: a WHERE condition of none of the three supported shapes raises no error:
\* the translation succeeds, the condition adds nothing to the filter, and the
\* read runs with the filter built from the remaining conditions.
C19_UnrecognisedConditionDropped ==
    IsRead =>
        LET conds == ConditionsOf(call.sql)
            st0 == [query |-> EmptyQuery, paramIndex |-> 0, threw |-> FALSE]
            rest == SelectSeq(conds, Recognised)
            t == sqlToMongoQuery(call.sql, call.params)
        IN  Len(rest) < Len(conds) =>
                /\ ~t.threw
                /\ t = ForEachCondition(st0, rest, call.params)
                /\ ret.t # "rejected"
                /\ call.op = "allAsync" => IdsOf(ret.v) = IdsOf(find(docs, t.query))

\* a read of category = ? AND active = 1 has returned an inactive product of the
\* category
C19_LiteralConditionIgnored ==
    /\ call.op = "allAsync"
    /\ ConditionsOf(call.sql) = <<EqCategory, ActiveIsOne>>
    /\ ret.t = "docs"
    /\ \E i \in 1..Len(ret.v) :
          ret.v[i]["active"] = Bool(FALSE) /\ ret.v[i]["category"] = call.params[1]

\* the callers whose connection attempt is under way
AttemptsInFlight == {c \in Callers : pc[c] \in AttemptStages}

C15_StoreCallOnConnectedHandle ==
    \A c \in Callers :
        last[c].kind = "op" =>
            /\ last[c].found = "lost" => last[c].issuedOn = "connected"
            /\ last[c].found = "connecting" => last[c].issuedOn # "closed"

\* C16: an attempt tries to connect at most maxRetries (3) times; after its k-th
\* failure, while tries remain, it waits min(1000 * 2^k, 10000) ms; and an attempt
\* under way always ends, whether or not the store becomes reachable.
C16_BoundedBackoffThenEnds ==
    /\ [](\A c \in Callers :
            /\ retries[c] <= maxRetries
            /\ pc[c] \in AttemptStages => retries[c] < maxRetries
            /\ Len(waited[c]) <= maxRetries - 1
            /\ \A k \in 1..Len(waited[c]) :
                  /\ k <= retries[c]
                  /\ waited[c][k] = IF 1000 * 2^k <= 10000 THEN 1000 * 2^k ELSE 10000)
    /\ \A c \in Callers : (pc[c] \in AttemptStages) ~> (pc[c] = "idle")

\* an attempt has ended after failing three times, having waited 2000 ms and
\* then 4000 ms, and initMongo has returned
C16_GaveUpAfterThreeFailures ==
    \E c \in Callers :
        /\ retries[c] = maxRetries
        /\ waited[c] = <<2000, 4000>>
        /\ pc[c] = "idle"
        /\ last[c].kind = "init"
        /\ ~isConnecting

AdminRunsInProgress == {c \in Callers : pc[c] \in {"admin", "opAdmin"}}

\* C25: nothing connects before initMongo() is called: as loaded the module has
\* no client, no handle, no promise and no attempt under way, and it stays so
\* until the first initMongo(); an operation issued before then is rejected with
\* 'MongoDB not initialized', issues no store call and starts no ensureAdmin.
C25_NothingBeforeInitMongo ==
    /\ [](mongoClient = 0 =>
            /\ mongoDb = 0 /\ ~connected
            /\ ~isConnecting /\ connectionPromise = "null"
            /\ AttemptsInFlight = {} /\ adminRuns = 0)
    /\ [][\A c \in Callers :
            (mongoClient = 0 /\ last'[c] # last[c] /\ last'[c].kind = "op") =>
                /\ last'[c].found = "absent"
                /\ last'[c].outcome = "rejected"
                /\ last'[c].issuedOn = "none"
                /\ pc'[c] = "idle"
                /\ adminRuns' = adminRuns /\ mongoClient' = 0]_vars

\* an operation has been rejected as not initialized, no initMongo() call
\* having been made, and nothing has connected
C25_OperationBeforeInitMongo ==
    \E c \in Callers :
        /\ last[c] = NotInitialized
        /\ starts = 1
        /\ mongoClient = 0 /\ connectionPromise = "null"

\* C26: ensureAdmin is started at most once in the life of the process, and
\* never while another run of it is in progress, whatever the interleaving of
\* initMongo with the operations.
C26_EnsureAdminOnce ==
    /\ adminRuns <= 1
    /\ Cardinality(AdminRunsInProgress) <= 1

\* C30: isConnecting is true exactly while a connection attempt is under way,
\* and the shared promise is then pending; every exit of an attempt resets it,
\* so that no flag is left behind to turn a later initMongo() away; and a caller
\* awaiting the promise is always eventually released.
C30_ConnectingFlagFollowsAttempt ==
    /\ [](/\ isConnecting <=> AttemptsInFlight # {}
          /\ isConnecting => connectionPromise = "pending")
    /\ [][\A c \in Callers :
            (pc[c] \in AttemptStages /\ pc'[c] = "idle") => ~isConnecting']_vars
    /\ [][\A c \in Callers :
            (pc[c] = "idle" /\ pc'[c] \in AttemptStages) =>
                ~isConnecting /\ isConnecting' /\ connectionPromise' = "pending"]_vars
    /\ \A c \in Callers : (pc[c] \in JoinedStages) ~> (pc[c] = "idle")

\* an attempt has given up after its last retry and the initMongo() caller that
\* awaited its promise has been released; isConnecting is false again
C30_JoinerReleasedAfterLastRetry ==
    \E c, d \in Callers :
        /\ c # d
        /\ retries[c] = maxRetries /\ pc[c] = "idle" /\ last[c].kind = "init"
        /\ pc[d] = "idle" /\ last[d].kind = "init" /\ retries[d] = 0
        /\ mongoDb = 0
        /\ ~isConnecting /\ connectionPromise = "fulfilled"

\* the row a document stands for: the identifier under id, active a number
RowOfDoc(d) ==
    [d EXCEPT !["id"] = d["_id"], !["_id"] = Undefined,
              !["active"] = IF d["active"].t = "boolean"
                            THEN Num(IF d["active"].v THEN 1 ELSE 0) ELSE @]

\* C27: a document that an UPDATE or a DELETE through the document adapter has
\* changed or removed satisfies every condition of the statement's WHERE clause,
\* read as SQL, conditions written with literals included.
C27_WritesOnlyWhereHolds ==
    ((IsRun("UPDATE") \/ IsRun("DELETE")) /\ ret.t = "run") =>
        \A i \in 1..Len(pre) :
            (\A j \in 1..Len(docs) : docs[j] # pre[i]) =>
                SqlSelects(RowOfDoc(pre[i]), call.sql, WhereParams(call.sql, call.params))

\* the VALUES list of the INSERT writes both literals and placeholders
MixesLiterals(sql) ==
    /\ Placeholders(sql) # <<>>
    /\ Len(Placeholders(sql)) < Len(SplitOn(fieldsMatch(sql), ","))

\* C29: an INSERT whose VALUES list mixes literals and placeholders stores each
\* parameter under the field written at the position of its placeholder (the
\* identifier under _id): the document it has written, the one whose identifier
\* it returns, holds for every placeholder the parameter bound to it.
C29_ParamUnderPlaceholderField ==
    (IsRun("INSERT") /\ MixesLiterals(call.sql)) =>
        LET kinds == Placeholders(call.sql)
        IN  \E i \in 1..Len(docs) :
                /\ docs[i]["_id"] = ret.v.lastID
                /\ \A k \in 1..Len(kinds) :
                      docs[i][IF kinds[k].field = "id" THEN "_id" ELSE kinds[k].field]
                          = Stored(call.params[k])

\* what authenticateToken made of the request served last
Authenticated == authenticateToken(useMongo, request.token)

\* the request served last came from an authenticated user that is an admin by
\* its stored role
ByAdmin == Authenticated.status = 0 /\ Authenticated.user["role"] = Str(<<"admin">>)

\* the routes that create, update or delete a product or change an order status,
\* and the admin router
AdminOnlyRoutes ==
    { "POST /products", "PUT /products/:id", "DELETE /products/:id",
      "PATCH /orders/:id/status", "GET /admin/orders" }

\* the table holds an entity under the identifier the URL writes
Holds(table, id) ==
    \E n \in 1..9 :
        /\ id = UrlId(useMongo, n)
        /\ \E i \in 1..Len(table) : LogicalId(table[i]) = UserId(useMongo, n)

\* C21: a request to an admin-only route by an authenticated user whose stored
\* role is not admin is answered 403, and products, orders and order items are
\* after it what they were before.
C21_NonAdminRefused403 ==
    [][(request = NoRequest /\ request' # NoRequest /\ request'.route \in AdminOnlyRoutes)
          => LET auth == authenticateToken(useMongo, request'.token)
             IN  (auth.status = 0 /\ auth.user["role"] # Str(<<"admin">>)) =>
                    /\ response'.status = 403
                    /\ UNCHANGED <<docs, rows, orders, orderItems>>]_vars

\* a customer has asked to delete a product the store holds and has been
\* answered 403
C21_CustomerDeleteRefused ==
    /\ request.route = "DELETE /products/:id"
    /\ request.token = TokenOf(useMongo, 2)
    /\ Holds(ProductsInUse, request.id)
    /\ response.status = 403

\* C22: every order a user who is no admin receives from GET /orders or from
\* GET /orders/:id carries that user's identifier as its user_id; an admin
\* receives every order from GET /orders, and from GET /orders/:id the order of
\* any identifier the store holds.
C22_OnlyOwnOrders ==
    /\ (request.route = "GET /orders" /\ response.status = 200) =>
          IF ByAdmin THEN IdsOf(response.body) = IdsOf(orders)
          ELSE \A i \in 1..Len(response.body) :
                  response.body[i]["user_id"] = Authenticated.user["id"]
    /\ (request.route = "GET /orders/:id" /\ response.status = 200) =>
          /\ LogicalId(response.body) \in IdsOf(orders)
          /\ ByAdmin \/ response.body["user_id"] = Authenticated.user["id"]
    /\ (request.route = "GET /orders/:id" /\ ByAdmin /\ Holds(orders, request.id)) =>
          response.status = 200

\* a customer has listed the orders while the store holds one of theirs and one
\* of another customer, and has received one order
C22_CustomerSeesOneOfTwo ==
    /\ request.route = "GET /orders"
    /\ request.token = TokenOf(useMongo, 2)
    /\ Len(orders) = 2
    /\ orders[2]["user_id"] = UserId(useMongo, 3)
    /\ response.status = 200
    /\ Len(response.body) = 1

\* C24: get, update and delete product, get order and patch order status answer
\* 404 when the store holds no entity under the identifier of the URL (the
\* request being otherwise in order: authenticated, by an admin where the route
\* asks for one, with a valid status).
C24_MissingEntityIs404 ==
    [][(request = NoRequest /\ request' # NoRequest)
          => LET auth == authenticateToken(useMongo, request'.token)
                 admin == auth.status = 0 /\ auth.user["role"] = Str(<<"admin">>)
                 route == request'.route
             IN  /\ (route = "GET /products/:id" /\ ~Holds(ProductsInUse, request'.id)) =>
                       response'.status = 404
                 /\ (route \in {"PUT /products/:id", "DELETE /products/:id"} /\ admin
                     /\ ~Holds(ProductsInUse, request'.id)) => response'.status = 404
                 /\ (route = "GET /orders/:id" /\ auth.status = 0
                     /\ ~Holds(orders, request'.id)) => response'.status = 404
                 /\ (route = "PATCH /orders/:id/status" /\ admin
                     /\ request'.body \in validStatuses /\ ~Holds(orders, request'.id)) =>
                       response'.status = 404]_vars

\* the product of the item is in the store and active
Orderable(item) ==
    \E k \in 1..Len(ProductsInUse) :
        /\ LogicalId(ProductsInUse[k]) = item.product_id
        /\ ProductsInUse[k]["active"] \in {Num(1), Bool(TRUE)}

\* the sum over the items of the price the store holds times the quantity asked
RECURSIVE StoreTotal(_)
StoreTotal(items) ==
    IF items = <<>> THEN 0
    ELSE LET k == CHOOSE k \in 1..Len(ProductsInUse) :
                      LogicalId(ProductsInUse[k]) = Head(items).product_id
         IN  ProductsInUse[k]["price"].v * Head(items).quantity.v + StoreTotal(Tail(items))

\* C20: a POST /orders with its required fields, whose every product is in the
\* store and active, stores one order whose total is the sum of store price times
\* quantity, and its items; one naming a missing or inactive product is answered
\* 400 and inserts no order and no order item.
C20_TotalFromStoreOrRefused ==
    (post.at = "done" /\ post.req.complete /\ post.req.age_confirmed /\ post.req.items # <<>>) =>
        IF \A i \in 1..Len(post.req.items) : Orderable(post.req.items[i])
        THEN /\ post.status = 201
             /\ Len(orders) = post.ordersBefore + 1
             /\ orders[Len(orders)]["total"] = Num(StoreTotal(post.req.items))
             /\ Len(orderItems) = post.itemsBefore + Len(post.req.items)
        ELSE /\ post.status = 400
             /\ Len(orders) = post.ordersBefore
             /\ Len(orderItems) = post.itemsBefore

\* the stored order the POST created, if it created one
Created == { i \in 1..Len(orders) : LogicalId(orders[i]) = post.lastID }

\* the stored order items of the order the POST created
ItemsOfCreated == SelectSeq(orderItems, LAMBDA item : item["order_id"] = post.lastID)

\* the sum of price times quantity over stored order items
RECURSIVE ItemsTotal(_)
ItemsTotal(items) ==
    IF items = <<>> THEN 0
    ELSE Head(items)["price"].v * Head(items)["quantity"].v + ItemsTotal(Tail(items))

\* C23: every stored order has one of the six statuses, on either db object, after
\* any sequence of order creations and status patches.
C23_StoredStatusIsValid ==
    \A i \in 1..Len(orders) : orders[i]["status"] \in validStatuses

\* C28: once a POST /orders that created an order has completed, the order has one
\* stored order item per requested item and its stored total is the sum of price
\* times quantity over them, whatever product updates and deletions ran between
\* the steps of the request.
C28_TotalMatchesStoredItems ==
    (post.at = "done" /\ post.lastID # Undefined) =>
        /\ Len(ItemsOfCreated) = Len(post.req.items)
        /\ \A i \in Created : orders[i]["total"] = Num(ItemsTotal(ItemsOfCreated))


============================================================================
